---- MODULE Spec2Model ----
(***************************************************************************)
(* State-machine model of the OpenClaw honeypot gateway: the attack        *)
(* classifier and attacker-session aggregator, the HTTP request pipeline   *)
(* (middleware, channel webhooks) and the WebSocket connection machine.    *)
(*                                                                         *)
(* Every `await` of the source is a suspension point: an action of the     *)
(* model is the synchronous run of one handler from the completion of the  *)
(* awaited store call to the next await (or to its return).  A store call  *)
(* completes either successfully (its write is applied) or by rejecting    *)
(* (nothing is written and the awaiting code sees an exception).           *)
(***************************************************************************)
EXTENDS Integers, Sequences, FiniteSets, TLC

(***************************************************************************)
(* Bounds of the model.                                                    *)
(***************************************************************************)
MaxIps == 2        \* distinct client addresses
MaxHttp == 2       \* HTTP requests, served concurrently
MaxSockets == 1    \* WebSocket upgrades
MaxFrames == 2     \* frames a client sends on one socket
MaxTicks == 2      \* firings of one connection's tick timer
MaxFail == 1       \* store calls that reject
MaxPeers == 2      \* sockets of the broadcast specification
MaxBroadcasts == 1  \* broadcastEvent calls that reach a connection
MaxCalls == 3      \* direct updateAttackerSession calls for one IP
MaxRequests == 2   \* request frames a client sends after its handshake

IPs == 1..MaxIps
Requests == 1..MaxHttp
Sockets == 1..MaxSockets
Peers == 1..MaxPeers
AllSockets == Sockets \cup Peers

(***************************************************************************)
(* Classifier (handlers.ts, "Attack Pattern Analyzer").  A payload is      *)
(* represented by the set of categories whose pattern lists it matches;    *)
(* analyzePayload is computed from that set in the order of the source.    *)
(***************************************************************************)
CategoryOrder ==
  << "sql_injection", "command_injection", "xss", "path_traversal",
     "prompt_injection", "scan", "exploit" >>

Categories == { CategoryOrder[i] : i \in DOMAIN CategoryOrder }

analyzePayload(cats) ==
  LET s0 == "low"
      s1 == IF "sql_injection" \in cats THEN "high" ELSE s0
      s2 == IF "command_injection" \in cats THEN "critical" ELSE s1
      s3 == IF "xss" \in cats /\ s2 = "low" THEN "medium" ELSE s2
      s4 == IF "path_traversal" \in cats /\ s3 \in {"low", "medium"}
            THEN "high" ELSE s3
      s5 == IF "prompt_injection" \in cats /\ s4 = "low" THEN "medium" ELSE s4
      s6 == IF "scan" \in cats /\ s5 = "low" THEN "low" ELSE s5
      s7 == IF "exploit" \in cats THEN "critical" ELSE s6
      types == SelectSeq(CategoryOrder, LAMBDA c : c \in cats)
  IN  [ isSuspicious |-> Len(types) > 0,
        attackTypes  |-> types,
        severity     |-> s7 ]

(***************************************************************************)
(* Attacker-session upsert (database/queries.ts).  `updates` is a record   *)
(* whose absent fields are the undefined properties of the source.         *)
(***************************************************************************)
Has(u, k) == k \in DOMAIN u

Truthy(u, k) == Has(u, k) /\ u[k]

NoSession ==
  [ exists |-> FALSE, requestCount |-> 0, wsMessageCount |-> 0,
    authAttemptCount |-> 0, suspiciousCount |-> 0,
    isScanner |-> FALSE, isBruteforcer |-> FALSE, isExploiter |-> FALSE ]

\* an upsert whose create branch starts every counter at zero
updateAttackerSessionCreatingZero(row, updates) ==
  [ row EXCEPT
    !.exists = TRUE,
    !.requestCount     = IF row.exists /\ Truthy(updates, "incrementRequests") THEN @ + 1 ELSE @,
    !.wsMessageCount   = IF row.exists /\ Truthy(updates, "incrementWsMessages") THEN @ + 1 ELSE @,
    !.authAttemptCount = IF row.exists /\ Truthy(updates, "incrementAuthAttempts") THEN @ + 1 ELSE @,
    !.suspiciousCount  = IF row.exists /\ Truthy(updates, "incrementSuspicious") THEN @ + 1 ELSE @,
    !.isScanner     = IF Has(updates, "isScanner") THEN updates.isScanner ELSE @,
    !.isBruteforcer = IF Has(updates, "isBruteforcer") THEN updates.isBruteforcer ELSE @,
    !.isExploiter   = IF Has(updates, "isExploiter") THEN updates.isExploiter ELSE @ ]

updateAttackerSession(row, updates) ==
  IF ~row.exists
  THEN \* prisma upsert, create branch (queries.ts 179-188)
       [ exists |-> TRUE,
         requestCount     |-> IF Truthy(updates, "incrementRequests") THEN 1 ELSE 0,
         wsMessageCount   |-> IF Truthy(updates, "incrementWsMessages") THEN 1 ELSE 0,
         authAttemptCount |-> IF Truthy(updates, "incrementAuthAttempts") THEN 1 ELSE 0,
         suspiciousCount  |-> IF Truthy(updates, "incrementSuspicious") THEN 1 ELSE 0,
         isScanner     |-> IF Has(updates, "isScanner") THEN updates.isScanner ELSE FALSE,
         isBruteforcer |-> IF Has(updates, "isBruteforcer") THEN updates.isBruteforcer ELSE FALSE,
         isExploiter   |-> IF Has(updates, "isExploiter") THEN updates.isExploiter ELSE FALSE ]
  ELSE \* update branch (queries.ts 189-212): a flag that is not undefined is
       \* written as given, true or false
       [ row EXCEPT
         !.requestCount     = IF Truthy(updates, "incrementRequests") THEN @ + 1 ELSE @,
         !.wsMessageCount   = IF Truthy(updates, "incrementWsMessages") THEN @ + 1 ELSE @,
         !.authAttemptCount = IF Truthy(updates, "incrementAuthAttempts") THEN @ + 1 ELSE @,
         !.suspiciousCount  = IF Truthy(updates, "incrementSuspicious") THEN @ + 1 ELSE @,
         !.isScanner     = IF Has(updates, "isScanner") THEN updates.isScanner ELSE @,
         !.isBruteforcer = IF Has(updates, "isBruteforcer") THEN updates.isBruteforcer ELSE @,
         !.isExploiter   = IF Has(updates, "isExploiter") THEN updates.isExploiter ELSE @ ]

\* a session update of a flagged payload that passes no flag
SuspiciousUpdatesWithoutFlags(attackTypes) == [ incrementSuspicious |-> TRUE ]

\* The updates analyzeAndLogSuspicious passes for a flagged payload
\* (handlers.ts 920-926): both flags are always booleans, never undefined.
SuspiciousUpdates(attackTypes) ==
  LET has(c) == \E i \in DOMAIN attackTypes : attackTypes[i] = c
  IN  [ incrementSuspicious |-> TRUE,
        isScanner   |-> has("scan"),
        isExploiter |-> has("exploit") \/ has("command_injection") ]

(***************************************************************************)
(* State.                                                                  *)
(***************************************************************************)
VARIABLES
  \* the store (database/queries.ts): one variable per table
  connections,          \* Connection rows
  requestRows,          \* Request rows
  wsMessages,           \* WebSocketMessage rows
  authAttempts,         \* AuthAttempt rows
  channelInteractions,  \* ChannelInteraction rows
  suspiciousActivities, \* SuspiciousActivity rows
  sessions,             \* AttackerSession row of each IP
  fails,                \* store calls that have rejected so far
  \* HTTP (gateway/server.ts, channels/index.ts)
  http,                 \* each request's position in the pipeline
  \* WebSocket (the WebSocket handler of gateway/protocol.ts)
  handlers,             \* the method registry: names with a handler
  readyState,           \* ws.readyState of each socket
  hcPc,                 \* position of handleConnection on each socket
  clients,              \* keys of the live-connection table `clients`
  state,                \* the ClientState object of each socket
  timers,               \* running setInterval timers of each socket
  tasks,                \* handleMessage invocations of each socket, by arrival
  sent,                 \* ws.send calls on each socket, in order
  closePc,              \* position of the close handler on each socket
  \* a direct call of the classifier
  payload,              \* the categories the text given to analyzePayload matches
  analysis,             \* the AnalysisResult it returned
  \* direct calls of updateAttackerSession
  upserts,              \* the `updates` arguments each IP's row was upserted with
  \* the routing of one HTTP request
  req,                  \* the request and how far its handling has got
  res,                  \* the response sent for it
  \* shutdown (index.ts)
  proc                  \* the process: running, stopping after a signal, exited

storeVars ==
  << connections, requestRows, wsMessages, authAttempts, channelInteractions,
     suspiciousActivities, sessions, fails >>

httpVars == << http >>

wsVars ==
  << handlers, readyState, hcPc, clients, state, timers, tasks, sent, closePc >>

classifierVars == << payload, analysis >>

\* what only the direct calls of single functions touch
routeVars == << req, res >>

directVars == << classifierVars, upserts, routeVars, proc >>

vars == << storeVars, httpVars, wsVars, directVars >>

(***************************************************************************)
(* The outcome of a store call: it may reject while fewer than MaxFail     *)
(* calls have rejected.                                                    *)
(***************************************************************************)
Outcomes == IF fails < MaxFail THEN {TRUE, FALSE} ELSE {TRUE}

Failed(ok) == fails' = IF ok THEN fails ELSE fails + 1

\* ids: prisma's generated row id of a Connection, and the uuid the code
\* falls back to when the insert rejects (never the id of a row)
RowId(kind, n) == << "row", kind, n >>

Uuid(kind, n) == << "uuid", kind, n >>

(***************************************************************************)
(* HTTP pipeline.  A request is described by its client address, by the    *)
(* kind of route it hits and by what the classifier matches: `cats` in the *)
(* middleware's payload (path, query and body), `bodyCats` in the body     *)
(* alone, which is what a channel webhook analyses a second time.  A text  *)
(* is described by its length in characters: `urlLength` for the path and  *)
(* the query as the middleware joins them, `bodyLength` for the body the   *)
(* client sent; `contentType` tells whether the request has a Content-Type *)
(* header.                                                                 *)
(***************************************************************************)
Routes == {"plain", "channel"}

PayloadInputs ==
  { [cats |-> {}, bodyCats |-> {},
     urlLength |-> 10, bodyLength |-> 0, contentType |-> FALSE],
    [cats |-> {"scan"}, bodyCats |-> {},
     urlLength |-> 8, bodyLength |-> 0, contentType |-> FALSE],
    [cats |-> {"sql_injection"}, bodyCats |-> {"sql_injection"},
     urlLength |-> 20, bodyLength |-> 10000, contentType |-> TRUE],
    [cats |-> {"command_injection", "path_traversal"},
     bodyCats |-> {"command_injection", "path_traversal"},
     urlLength |-> 20, bodyLength |-> 10001, contentType |-> TRUE],
    [cats |-> {}, bodyCats |-> {},
     urlLength |-> 20, bodyLength |-> 12, contentType |-> FALSE] }

\* The addresses of a request: the remote address of its socket and, when
\* the client or a proxy set them, the X-Real-IP header and the list of the
\* X-Forwarded-For header.
HeaderInputs ==
  { [remoteAddress |-> a] : a \in IPs }
    \cup { [remoteAddress |-> MaxIps, realIp |-> 1],
           [remoteAddress |-> MaxIps, realIp |-> MaxIps, forwarded |-> << 1, MaxIps >>] }

\* server.ts 265-276: the first X-Forwarded-For value, else X-Real-IP, else
\* req.ip, which without X-Forwarded-For is the remote address
getClientIp(headers) ==
  IF Has(headers, "forwarded") THEN Head(headers.forwarded)
  ELSE IF Has(headers, "realIp") THEN headers.realIp
  ELSE headers.remoteAddress

\* channels/index.ts 10-17: the first X-Forwarded-For value, else req.ip
channelGetClientIp(headers) ==
  IF Has(headers, "forwarded") THEN Head(headers.forwarded)
  ELSE headers.remoteAddress

IdleRequest ==
  [ pc |-> "idle", ip |-> 1, headers |-> [remoteAddress |-> 1],
    route |-> "plain", cats |-> {}, bodyCats |-> {},
    urlLength |-> 0, bodyLength |-> 0, contentType |-> FALSE,
    connectionId |-> Uuid("http", 0), stage |-> "mw", k |-> 0,
    handlerInvoked |-> FALSE, response |-> "none" ]

\* String.prototype.slice(0, end) of a text of `length` characters: the
\* length of the prefix it returns
slice(length, end) == IF length < end THEN length ELSE end

\* server.ts 31 and 38: `body` is the text of req.body when express.raw
\* buffered it, "" otherwise; express.raw({ type: "*/*" }) buffers the body
\* of a request that has a Content-Type header and leaves req.body alone
\* when the header is absent
Body(h) == IF h.contentType THEN h.bodyLength ELSE 0

\* the length of the payload given to the running analyzeAndLogSuspicious:
\* path, query and body joined by spaces in the middleware (server.ts 61),
\* the text of the body, or "{}" for a body that was not buffered, in a
\* channel webhook (channels/index.ts 37-38)
PayloadLength(h) ==
  IF h.stage = "mw" THEN h.urlLength + 1 + Body(h)
  ELSE IF h.contentType THEN h.bodyLength ELSE 2

\* the length of the text res.send was last given (server.ts 85-93): the
\* JSON of /health (server.ts 131-138) or the acknowledgement of a webhook
\* (channels/index.ts 125-127)
ResponseBody(h) == IF h.route = "plain" THEN 63 ELSE 29

\* queries.ts 48 and 131: `data.isSuspicious ?? false`, for the argument
\* `data` of logRequest or logChannelInteraction
isSuspiciousOrFalse(data) ==
  IF Has(data, "isSuspicious") THEN data.isSuspicious ELSE FALSE

\* the ipAddress of the code that is running for the request: the
\* middleware's (server.ts 37) or handleChannelWebhook's (channels/index.ts 35)
IpAddress(h) ==
  IF h.stage = "mw" THEN h.ip ELSE channelGetClientIp(h.headers)

\* an analyzeAndLogSuspicious that classifies nothing
NotAnalysed(h) == analyzePayload({})

\* the payload the running analyzeAndLogSuspicious call was given
Analysed(h) == analyzePayload(IF h.stage = "mw" THEN h.cats ELSE h.bodyCats)

\* channels/index.ts 101-117: the await of logChannelInteraction
ChannelAfterAnalyze(h) == [h EXCEPT !.pc = "chInteraction"]

\* channels/index.ts 30-52: handleChannelWebhook up to its first await
handleChannelWebhook(h) ==
  LET g == [h EXCEPT !.stage = "ch"]
  IN  IF Analysed(g).isSuspicious
      THEN [g EXCEPT !.pc = "suspicious", !.k = 1]
      ELSE ChannelAfterAnalyze(g)

\* res.json / res.send of a route: the response is sent and the `finish`
\* listener of the middleware (server.ts 95-100) issues logRequest
Respond(h) == [h EXCEPT !.response = "normal", !.pc = "finish"]

\* server.ts 127: next() runs the route's handler
InvokeRoute(h) ==
  LET g == [h EXCEPT !.handlerInvoked = TRUE]
  IN  IF g.route = "plain" THEN Respond(g) ELSE handleChannelWebhook(g)

\* the caller of analyzeAndLogSuspicious resumes
AfterAnalyze(h) ==
  IF h.stage = "mw" THEN InvokeRoute(h) ELSE ChannelAfterAnalyze(h)

\* an exception leaves an async middleware or route handler: the promise
\* rejects, no response is ever written for the request
Rejected(h) == [h EXCEPT !.pc = "rejected"]

\* server.ts 34-47: the middleware runs to the await of createConnection
HttpArrive(r) ==
  /\ http[r].pc = "idle"
  /\ \A q \in Requests : q < r => http[q].pc # "idle"
  /\ \E headers \in HeaderInputs, route \in Routes, p \in PayloadInputs :
       http' = [http EXCEPT ![r] =
                  [@ EXCEPT !.pc = "mwConnection", !.ip = getClientIp(headers),
                            !.headers = headers, !.route = route,
                            !.cats = p.cats, !.bodyCats = p.bodyCats,
                            !.urlLength = p.urlLength,
                            !.bodyLength = p.bodyLength,
                            !.contentType = p.contentType]]
  /\ UNCHANGED << storeVars, wsVars, directVars >>

\* server.ts 41-58: createConnection settles; on rejection the request id is
\* used instead; then the await of updateAttackerSession
MwConnectionDone(r) ==
  /\ http[r].pc = "mwConnection"
  /\ \E ok \in Outcomes :
       /\ Failed(ok)
       /\ connections' =
            IF ok
            THEN connections \cup
                   { [ id |-> RowId("http", r), ipAddress |-> http[r].ip,
                       connectionType |-> "http", disconnected |-> FALSE ] }
            ELSE connections
       /\ http' = [http EXCEPT ![r] =
                     [@ EXCEPT !.pc = "mwSession",
                               !.connectionId = IF ok THEN RowId("http", r)
                                                ELSE Uuid("http", r)]]
  /\ UNCHANGED << requestRows, wsMessages, authAttempts, channelInteractions,
                  suspiciousActivities, sessions, wsVars, directVars >>

\* server.ts 58-69: updateAttackerSession settles; analyzeAndLogSuspicious
\* starts and runs to its first await, or returns at once
MwSessionDone(r) ==
  /\ http[r].pc = "mwSession"
  /\ \E ok \in Outcomes :
       /\ Failed(ok)
       /\ sessions' =
            IF ok
            THEN [sessions EXCEPT ![http[r].ip] =
                    updateAttackerSession(@, [incrementRequests |-> TRUE])]
            ELSE sessions
       /\ http' = [http EXCEPT ![r] =
                     IF ~ok THEN Rejected(@)
                     ELSE IF Analysed(@).isSuspicious
                          THEN [@ EXCEPT !.pc = "suspicious", !.k = 1]
                          ELSE AfterAnalyze(@)]
  /\ UNCHANGED << connections, requestRows, wsMessages, authAttempts,
                  channelInteractions, suspiciousActivities, wsVars, directVars >>

\* handlers.ts 905-917: one logSuspiciousActivity of the loop settles
SuspiciousLogged(r) ==
  /\ http[r].pc = "suspicious"
  /\ LET h == http[r]
         a == Analysed(h)
     IN  \E ok \in Outcomes :
           /\ Failed(ok)
           /\ suspiciousActivities' =
                IF ok
                THEN suspiciousActivities \cup
                       { [ type |-> a.attackTypes[h.k], severity |-> a.severity,
                           payload |-> slice(PayloadLength(h), 5000),
                           ipAddress |-> IpAddress(h),
                           connectionId |-> IF h.stage = "mw"
                                            THEN << h.connectionId >> ELSE << >>,
                           src |-> << r, h.stage >> ] }
                ELSE suspiciousActivities
           /\ http' = [http EXCEPT ![r] =
                         IF ~ok THEN Rejected(@)
                         ELSE IF h.k < Len(a.attackTypes)
                              THEN [@ EXCEPT !.k = h.k + 1]
                              ELSE [@ EXCEPT !.pc = "flags"]]
  /\ UNCHANGED << connections, requestRows, wsMessages, authAttempts,
                  channelInteractions, sessions, wsVars, directVars >>

\* handlers.ts 919-935: the session update of a flagged payload settles and
\* analyzeAndLogSuspicious returns to its caller
SuspiciousSessionDone(r) ==
  /\ http[r].pc = "flags"
  /\ \E ok \in Outcomes :
       /\ Failed(ok)
       /\ sessions' =
            IF ok
            THEN [sessions EXCEPT ![IpAddress(http[r])] =
                    updateAttackerSession(
                      @, SuspiciousUpdates(Analysed(http[r]).attackTypes))]
            ELSE sessions
       /\ http' = [http EXCEPT ![r] =
                     IF ok THEN AfterAnalyze(@) ELSE Rejected(@)]
  /\ UNCHANGED << connections, requestRows, wsMessages, authAttempts,
                  channelInteractions, suspiciousActivities, wsVars, directVars >>

\* channels/index.ts 101-120: logChannelInteraction settles (a rejection is
\* caught and logged); then the await of updateAttackerSession
ChannelInteractionDone(r) ==
  /\ http[r].pc = "chInteraction"
  /\ \E ok \in Outcomes :
       /\ Failed(ok)
       /\ channelInteractions' =
            IF ok
            THEN channelInteractions \cup
                   { [ ipAddress |-> channelGetClientIp(http[r].headers),
                       isSuspicious |-> isSuspiciousOrFalse(
                         [ ipAddress |-> channelGetClientIp(http[r].headers),
                           responseCode |-> 200 ]),
                       responseCode |-> 200, src |-> r ] }
            ELSE channelInteractions
  /\ http' = [http EXCEPT ![r].pc = "chSession"]
  /\ UNCHANGED << connections, requestRows, wsMessages, authAttempts,
                  suspiciousActivities, sessions, wsVars, directVars >>

\* channels/index.ts 119-128: updateAttackerSession settles,
\* handleChannelWebhook returns and the route answers
ChannelSessionDone(r) ==
  /\ http[r].pc = "chSession"
  /\ \E ok \in Outcomes :
       /\ Failed(ok)
       /\ sessions' =
            IF ok
            THEN [sessions EXCEPT ![channelGetClientIp(http[r].headers)] =
                    updateAttackerSession(@, [incrementRequests |-> TRUE])]
            ELSE sessions
       /\ http' = [http EXCEPT ![r] = IF ok THEN Respond(@) ELSE Rejected(@)]
  /\ UNCHANGED << connections, requestRows, wsMessages, authAttempts,
                  channelInteractions, suspiciousActivities, wsVars, directVars >>

\* server.ts 95-116: logRequest of the `finish` listener settles (a rejection
\* is caught and logged)
FinishLogged(r) ==
  /\ http[r].pc = "finish"
  /\ \E ok \in Outcomes :
       /\ Failed(ok)
       /\ requestRows' =
            IF ok
            THEN requestRows \cup
                   { [ connectionId |-> http[r].connectionId,
                       body |-> slice(Body(http[r]), 10000),
                       bodySize |-> Body(http[r]),
                       responseBody |-> slice(ResponseBody(http[r]), 5000),
                       isSuspicious |-> isSuspiciousOrFalse(
                         [ connectionId |-> http[r].connectionId,
                           responseCode |-> 200 ]),
                       responseCode |-> 200, src |-> r ] }
            ELSE requestRows
  /\ http' = [http EXCEPT ![r].pc = "done"]
  /\ UNCHANGED << connections, wsMessages, authAttempts, channelInteractions,
                  suspiciousActivities, sessions, wsVars, directVars >>

(***************************************************************************)
(* Protocol codec and method registry (gateway/protocol.ts,                *)
(* gateway/handlers.ts).                                                   *)
(***************************************************************************)
PROTOCOL_VERSION == 1

\* the methods hello-ok advertises in features.methods
GATEWAY_METHODS ==
  {
     "health", "status", "logs.tail", "channels.status", "channels.logout",
     "usage.status", "usage.cost", "tts.status", "tts.providers",
     "config.get", "config.set", "config.apply", "config.patch",
     "config.schema", "exec.approvals.get", "exec.approvals.set",
     "wizard.start", "wizard.next", "wizard.cancel", "wizard.status",
     "talk.mode", "models.list", "agents.list", "skills.status",
     "skills.bins", "skills.install", "skills.update", "update.run",
     "voicewake.get", "voicewake.set", "sessions.list", "sessions.preview",
     "sessions.patch", "sessions.reset", "sessions.delete",
     "sessions.compact", "last-heartbeat", "set-heartbeats", "wake",
     "node.pair.request", "node.pair.list", "node.pair.approve",
     "node.pair.reject", "node.pair.verify", "device.pair.list",
     "device.pair.approve", "device.pair.reject", "device.token.rotate",
     "device.token.revoke", "node.rename", "node.list", "node.describe",
     "node.invoke", "node.invoke.result", "node.event", "cron.list",
     "cron.status", "cron.add", "cron.update", "cron.remove", "cron.run",
     "cron.runs", "system-presence", "system-event", "send", "agent",
     "agent.identity.get", "agent.wait", "browser.request", "chat.history",
     "chat.abort", "chat.send"
  }

\* the registerHandler calls of handlers.ts with the first one, "health",
\* left out
RegisteredCallsWithoutHealth ==
  <<
     "status", "channels.status", "channels.logout",
     "sessions.list", "sessions.preview", "sessions.reset",
     "sessions.delete", "sessions.compact", "sessions.patch", "agents.list",
     "agent.identity.get", "models.list", "config.get", "config.set",
     "config.apply", "config.patch", "config.schema", "chat.history", "chat.send",
     "chat.abort", "node.list", "node.describe", "node.invoke",
     "node.invoke.result", "node.event", "node.pair.request",
     "node.pair.list", "node.pair.approve", "node.pair.reject",
     "node.pair.verify", "node.rename", "cron.list", "cron.status",
     "cron.add", "cron.update", "cron.remove", "cron.run", "cron.runs",
     "skills.status", "skills.bins", "skills.install", "skills.update",
     "device.pair.list", "device.pair.approve", "device.pair.reject",
     "device.token.rotate", "device.token.revoke", "logs.tail",
     "usage.status", "usage.cost", "tts.status", "tts.providers",
     "wizard.start", "wizard.next", "wizard.cancel", "wizard.status",
     "talk.mode", "voicewake.get", "voicewake.set", "last-heartbeat",
     "set-heartbeats", "wake", "update.run", "system-presence",
     "system-event", "send", "agent", "agent.wait", "browser.request",
     "exec.approvals.get", "exec.approvals.set"
  >>

\* handlers.ts 59-682: the method of each registerHandler call, in source
\* order
RegisteredCalls ==
  <<
     "health", "status", "channels.status", "channels.logout",
     "sessions.list", "sessions.preview", "sessions.reset",
     "sessions.delete", "sessions.compact", "sessions.patch", "agents.list",
     "agent.identity.get", "models.list", "config.get", "config.set",
     "config.apply", "config.patch", "config.schema", "chat.history",
     "chat.send", "chat.abort", "node.list", "node.describe", "node.invoke",
     "node.invoke.result", "node.event", "node.pair.request",
     "node.pair.list", "node.pair.approve", "node.pair.reject",
     "node.pair.verify", "node.rename", "cron.list", "cron.status",
     "cron.add", "cron.update", "cron.remove", "cron.run", "cron.runs",
     "skills.status", "skills.bins", "skills.install", "skills.update",
     "device.pair.list", "device.pair.approve", "device.pair.reject",
     "device.token.rotate", "device.token.revoke", "logs.tail",
     "usage.status", "usage.cost", "tts.status", "tts.providers",
     "wizard.start", "wizard.next", "wizard.cancel", "wizard.status",
     "talk.mode", "voicewake.get", "voicewake.set", "last-heartbeat",
     "set-heartbeats", "wake", "update.run", "system-presence",
     "system-event", "send", "agent", "agent.wait", "browser.request",
     "exec.approvals.get", "exec.approvals.set"
  >>

\* handlers.ts 26-31 and 59-682: the Map after every registerHandler call of
\* the module has run handlers.set(method, handler)
registerHandler(calls) == { calls[i] : i \in DOMAIN calls }

Undefined == "undefined"

\* property access: an absent field reads as undefined
Field(f, k) == IF Has(f, k) THEN f[k] ELSE Undefined

ErrorCodes ==
  [ INVALID_REQUEST |-> "invalid_request", UNAUTHORIZED |-> "unauthorized",
    NOT_FOUND |-> "not_found", METHOD_NOT_FOUND |-> "method_not_found",
    INTERNAL_ERROR |-> "internal_error", RATE_LIMITED |-> "rate_limited" ]

\* a frame put on the wire by ws.send; `src` is the inbound frame it answers
\* (0 for a tick or a broadcast event), `delivered` whether it reached the
\* client
Wire(type, src) ==
  [ type |-> type, src |-> src, id |-> Undefined, ok |-> TRUE,
    code |-> Undefined, event |-> Undefined, seq |-> 0, delivered |-> FALSE ]

createErrorResponse(src, id, code) ==
  [ Wire("res", src) EXCEPT !.id = id, !.ok = FALSE, !.code = code ]

createSuccessResponse(src, id) ==
  [ Wire("res", src) EXCEPT !.id = id, !.ok = TRUE ]

generateHelloOk(src) == Wire("hello-ok", src)

generateTickEvent(seq) ==
  [ Wire("event", 0) EXCEPT !.event = "tick", !.seq = seq ]

\* handlers.ts 34-55: no registered handler throws (each reads its params
\* through optional chaining), so a found handler returns its canned payload
handleRequest(registry, src, request) ==
  IF Field(request, "method") \notin registry
  THEN createErrorResponse(src, Field(request, "id"), ErrorCodes.METHOD_NOT_FOUND)
  ELSE createSuccessResponse(src, Field(request, "id"))

(***************************************************************************)
(* Inbound frames.  `shape` is what JSON.parse makes of the text; the      *)
(* other fields are the properties of a parsed object, absent when the     *)
(* client left them out; `cats` is the set of classifier categories that   *)
(* the raw text matches, absent when it matches none; `sizes` gives the    *)
(* lengths in characters of the texts of the frame that are long (the      *)
(* whole text `raw`, the id, the method name, the credential), absent for  *)
(* a frame whose texts are all short.                                      *)
(***************************************************************************)
FrameInputs ==
  { [shape |-> "badjson"],
    [shape |-> "object", minProtocol |-> 1, maxProtocol |-> 1,
     auth |-> [password |-> "pw", token |-> "tk"],
     sizes |-> [credential |-> 101, raw |-> 300]],
    [shape |-> "object", minProtocol |-> 2, maxProtocol |-> 3,
     auth |-> [token |-> "tk"]],
    [shape |-> "object", auth |-> [password |-> "", token |-> "tk"]],
    [shape |-> "object"],
    [shape |-> "object", type |-> "req", id |-> "r1", method |-> "health"],
    [shape |-> "object", type |-> "req", id |-> "r2", method |-> "no.such",
     sizes |-> [method |-> 9950, raw |-> 10000]],
    [shape |-> "object", type |-> "req", id |-> "r3", method |-> "status",
     cats |-> {"sql_injection", "scan"},
     sizes |-> [id |-> 10001, raw |-> 10080]],
    [shape |-> "object", type |-> "event"] }

\* JSON texts that are no object: null, and a number (a string and an array
\* behave as the number does: reading a property of them gives undefined)
JsonNull == [shape |-> "null"]

JsonNumber == [shape |-> "number"]

\* the first frame of a connection: any of the frames above, or a JSON value
\* that is no object
FirstFrameInputs == FrameInputs \cup { JsonNull, JsonNumber }

\* protocol.ts 543: `connectParams.client` throws a TypeError when the
\* parsed value is null
ConnectThrows(f) == f.shape = "null"

\* the length of one text of a frame
Size(f, part, short) ==
  IF Has(f, "sizes") /\ part \in DOMAIN f.sizes THEN f.sizes[part] ELSE short

\* raw.length, the length of the text of the frame
RawLength(f) == Size(f, "raw", 64)

\* protocol.ts 648: the length of JSON.stringify(response) for the frames
\* handleRequest returns.  Both carry the id of the request; the error
\* (handlers.ts 40-44) quotes the method name in its message; the canned
\* payload of a success is counted as the two characters of an empty object.
stringify(response, request) ==
  IF response.ok
  THEN 45 + Size(request, "id", 2)
  ELSE 100 + Size(request, "id", 2) + Size(request, "method", 7)

\* protocol.ts 457: analyzePayload(raw), the text of the frame
FrameAnalysis(f) == analyzePayload(IF Has(f, "cats") THEN f.cats ELSE {})

Null == [shape |-> "null"]

\* protocol.ts 308-317
parseFrame(f) ==
  IF f.shape = "badjson" THEN Null
  ELSE IF f.shape # "object" THEN Null
  ELSE IF ~Has(f, "type") THEN Null
  ELSE f

isRequestFrame(frame) == Field(frame, "type") = "req"

\* protocol.ts 548-553: the method and the credential of an AuthAttempt
Credential(f, k) == IF Has(f, "auth") THEN Field(f.auth, k) ELSE Undefined

IsSet(v) == v # Undefined /\ v # ""

authMethod(f) ==
  IF IsSet(Credential(f, "password")) THEN "password"
  ELSE IF IsSet(Credential(f, "token")) THEN "token"
  ELSE "none"

\* protocol.ts 571-575: the mismatch is logged and nothing else
ProtocolMismatch(f) ==
  LET minProto == IF Has(f, "minProtocol") THEN f.minProtocol ELSE 1
      maxProto == IF Has(f, "maxProtocol") THEN f.maxProtocol ELSE 1
  IN  PROTOCOL_VERSION < minProto \/ PROTOCOL_VERSION > maxProto

(***************************************************************************)
(* WebSocket connection machine (protocol.ts 371-713).                     *)
(***************************************************************************)
NoState ==
  [ connId |-> Uuid("ws", 0), dbConnectionId |-> Uuid("ws", 0), ipAddress |-> 1,
    authenticated |-> FALSE, seq |-> 0, tickInterval |-> FALSE ]

Task(f, kind, pc) == [ frame |-> f, kind |-> kind, pc |-> pc, warned |-> FALSE ]

\* ws.send: the frame reaches the client only if the socket is open (ws
\* drops a send on a closing or closed socket without throwing)
Send(w, msg) ==
  sent' = [sent EXCEPT ![w] =
             Append(@, [msg EXCEPT !.delivered = (readyState[w] = "OPEN")])]

\* the row of a logWebSocketMessage call: the inbound logs pass
\* analysis.isSuspicious, the outbound logs leave it out (queries.ts 80)
LogRow(w, i, direction, frameType, requestId, raw) ==
  [ connectionId |-> state[w].dbConnectionId, direction |-> direction,
    frameType |-> frameType, requestId |-> requestId, raw |-> raw,
    isSuspicious |-> ( direction = "inbound"
                       /\ FrameAnalysis(tasks[w][i].frame).isSuspicious ),
    src |-> << w, i >> ]

\* a handleMessage invocation ends: by returning, or by an exception that
\* the `message` listener catches and logs (protocol.ts 421-427)
Settle(w, i, ok, pc) ==
  tasks' = [tasks EXCEPT ![w][i].pc = IF ok THEN pc ELSE "failed"]

\* protocol.ts 374-400: the upgrade completes, handleConnection runs to the
\* await of createConnection
Upgrade(w) ==
  /\ readyState[w] = "NONE"
  /\ \A v \in AllSockets : v < w => readyState[v] # "NONE"
  /\ readyState' = [readyState EXCEPT ![w] = "OPEN"]
  /\ hcPc' = [hcPc EXCEPT ![w] = "createConnection"]
  /\ \E ip \in IPs :
       state' = [state EXCEPT ![w] =
                   [NoState EXCEPT !.connId = Uuid("ws", w), !.ipAddress = ip]]
  /\ UNCHANGED << storeVars, httpVars, directVars, handlers, clients, timers, tasks, sent,
                  closePc >>

\* protocol.ts 395-418: createConnection settles (the connId is the fallback
\* id), the state enters the table, then the await of updateAttackerSession
HcConnectionDone(w) ==
  /\ hcPc[w] = "createConnection"
  /\ \E ok \in Outcomes :
       /\ Failed(ok)
       /\ connections' =
            IF ok
            THEN connections \cup
                   { [ id |-> RowId("ws", w), ipAddress |-> state[w].ipAddress,
                       connectionType |-> "websocket", disconnected |-> FALSE ] }
            ELSE connections
       /\ state' = [state EXCEPT ![w].dbConnectionId =
                      IF ok THEN RowId("ws", w) ELSE state[w].connId]
  /\ clients' = clients \cup {w}
  /\ hcPc' = [hcPc EXCEPT ![w] = "session"]
  /\ UNCHANGED << requestRows, wsMessages, authAttempts, channelInteractions,
                  suspiciousActivities, sessions, httpVars, directVars, handlers,
                  readyState, timers, tasks, sent, closePc >>

\* protocol.ts 418-447: updateAttackerSession settles and the message, close
\* and error listeners are registered; on rejection handleConnection ends
\* before registering any listener
HcSessionDone(w) ==
  /\ hcPc[w] = "session"
  /\ \E ok \in Outcomes :
       /\ Failed(ok)
       /\ sessions' =
            IF ok
            THEN [sessions EXCEPT ![state[w].ipAddress] =
                    updateAttackerSession(@, [incrementWsMessages |-> TRUE])]
            ELSE sessions
       /\ hcPc' = [hcPc EXCEPT ![w] = IF ok THEN "ready" ELSE "rejected"]
  /\ UNCHANGED << connections, requestRows, wsMessages, authAttempts,
                  channelInteractions, suspiciousActivities, httpVars, directVars, handlers,
                  readyState, clients, state, timers, tasks, sent, closePc >>

\* handleMessage without the test of state.authenticated (protocol.ts
\* 483-487): every frame is parsed and dispatched
handleMessageDispatchingAlways(w, f) ==
  IF f.shape = "badjson" THEN Task(f, "invalid", "logInvalid")
  ELSE IF parseFrame(f) = Null THEN Task(f, "invalid", "logInvalid")
  ELSE IF isRequestFrame(parseFrame(f)) THEN Task(f, "req", "logRequest")
  ELSE Task(f, "other", "logOther")

\* protocol.ts 449-520: handleMessage from its call to its first await
handleMessage(w, f) ==
  IF f.shape = "badjson" THEN Task(f, "invalid", "logInvalid")
  ELSE IF ~state[w].authenticated THEN Task(f, "connect", "logConnect")
  ELSE IF parseFrame(f) = Null THEN Task(f, "invalid", "logInvalid")
  ELSE IF isRequestFrame(parseFrame(f)) THEN Task(f, "req", "logRequest")
  ELSE Task(f, "other", "logOther")

\* protocol.ts 421-427: the client sends one of `inputs` as its next frame,
\* at most `max` frames on a socket; the `message` event runs the listener
\* if handleConnection has registered it, and is lost otherwise
Message(w, inputs, max) ==
  /\ readyState[w] = "OPEN"
  /\ Len(tasks[w]) < max
  /\ \E f \in inputs :
       tasks' = [tasks EXCEPT ![w] =
                   Append(@, IF hcPc[w] = "ready" THEN handleMessage(w, f)
                             ELSE Task(f, "lost", "lost"))]
  /\ UNCHANGED << storeVars, httpVars, directVars, handlers, readyState, hcPc, clients,
                  state, timers, sent, closePc >>

\* the client sends any frame
ClientSend(w) == Message(w, FrameInputs, MaxFrames)

\* the client sends its first frame and nothing after it
FirstFrame(w) == Message(w, FirstFrameInputs, 1)

\* the client sends a connect envelope and nothing after it
PeerConnect(w) == Message(w, { [shape |-> "object"] }, 1)

\* the request frames among the frames a client sends
RequestInputs == { f \in FrameInputs : isRequestFrame(parseFrame(f)) }

\* the client has its hello-ok and sends a request frame, without waiting
\* for the answer to the one before
RequestSend(w) ==
  /\ state[w].authenticated
  /\ Message(w, RequestInputs, 1 + MaxRequests)

\* protocol.ts 471-480 and 493-502: the log of an invalid frame settles
InvalidLogged(w, i) ==
  /\ i \in DOMAIN tasks[w]
  /\ tasks[w][i].pc = "logInvalid"
  /\ \E ok \in Outcomes :
       /\ Failed(ok)
       /\ wsMessages' =
            IF ok THEN wsMessages \cup { LogRow(w, i, "inbound", "invalid", Undefined,
                            slice(RawLength(tasks[w][i].frame), 10000)) }
            ELSE wsMessages
       /\ Settle(w, i, ok, "done")
  /\ UNCHANGED << connections, requestRows, authAttempts, channelInteractions,
                  suspiciousActivities, sessions, httpVars, directVars, handlers,
                  readyState, hcPc, clients, state, timers, sent, closePc >>

\* protocol.ts 510-518: the log of a frame that is no request settles
OtherLogged(w, i) ==
  /\ i \in DOMAIN tasks[w]
  /\ tasks[w][i].pc = "logOther"
  /\ \E ok \in Outcomes :
       /\ Failed(ok)
       /\ wsMessages' =
            IF ok
            THEN wsMessages \cup
                   { LogRow(w, i, "inbound", Field(tasks[w][i].frame, "type"), Undefined,
                            slice(RawLength(tasks[w][i].frame), 10000)) }
            ELSE wsMessages
       /\ Settle(w, i, ok, "done")
  /\ UNCHANGED << connections, requestRows, authAttempts, channelInteractions,
                  suspiciousActivities, sessions, httpVars, directVars, handlers,
                  readyState, hcPc, clients, state, timers, sent, closePc >>

\* protocol.ts 533-565: the log of the connect frame settles; handleConnect
\* keeps the client info and awaits logAuthAttempt
ConnectLogged(w, i) ==
  /\ i \in DOMAIN tasks[w]
  /\ tasks[w][i].pc = "logConnect"
  /\ \E ok \in Outcomes :
       /\ Failed(ok)
       /\ wsMessages' =
            IF ok THEN wsMessages \cup { LogRow(w, i, "inbound", "connect", Undefined,
                            slice(RawLength(tasks[w][i].frame), 10000)) }
            ELSE wsMessages
       /\ Settle(w, i, ok /\ ~ConnectThrows(tasks[w][i].frame), "logAuth")
  /\ UNCHANGED << connections, requestRows, authAttempts, channelInteractions,
                  suspiciousActivities, sessions, httpVars, directVars, handlers,
                  readyState, hcPc, clients, state, timers, sent, closePc >>

\* protocol.ts 555-568: logAuthAttempt settles, then the await of
\* updateAttackerSession
AuthLogged(w, i) ==
  /\ i \in DOMAIN tasks[w]
  /\ tasks[w][i].pc = "logAuth"
  /\ \E ok \in Outcomes :
       /\ Failed(ok)
       /\ authAttempts' =
            IF ok
            THEN authAttempts \cup
                   { [ connectionId |-> state[w].dbConnectionId,
                       ipAddress |-> state[w].ipAddress,
                       method |-> authMethod(tasks[w][i].frame),
                       credentialRaw |->
                         slice(IF authMethod(tasks[w][i].frame) = "none" THEN 0
                               ELSE Size(tasks[w][i].frame, "credential", 2), 100),
                       success |-> TRUE, src |-> << w, i >> ] }
            ELSE authAttempts
       /\ Settle(w, i, ok, "authSession")
  /\ UNCHANGED << connections, requestRows, wsMessages, channelInteractions,
                  suspiciousActivities, sessions, httpVars, directVars, handlers,
                  readyState, hcPc, clients, state, timers, sent, closePc >>

\* protocol.ts 568-603: updateAttackerSession settles; a protocol mismatch is
\* logged; the connection is marked authenticated, hello-ok is sent and its
\* log is awaited
AuthSessionDone(w, i) ==
  /\ i \in DOMAIN tasks[w]
  /\ tasks[w][i].pc = "authSession"
  /\ \E ok \in Outcomes :
       /\ Failed(ok)
       /\ sessions' =
            IF ok
            THEN [sessions EXCEPT ![state[w].ipAddress] =
                    updateAttackerSession(@, [incrementAuthAttempts |-> TRUE])]
            ELSE sessions
       /\ tasks' = [tasks EXCEPT ![w][i] =
                      IF ok
                      THEN [@ EXCEPT !.pc = "logHello",
                                     !.warned = ProtocolMismatch(tasks[w][i].frame)]
                      ELSE [@ EXCEPT !.pc = "failed"]]
       /\ state' = [state EXCEPT ![w].authenticated = @ \/ ok]
       /\ IF ok THEN Send(w, generateHelloOk(i)) ELSE sent' = sent
  /\ UNCHANGED << connections, requestRows, wsMessages, authAttempts,
                  channelInteractions, suspiciousActivities, httpVars, directVars, handlers,
                  readyState, hcPc, clients, timers, closePc >>

\* protocol.ts 612: setInterval; the handle kept in the state is overwritten
StartTick(w) ==
  /\ timers' = [timers EXCEPT ![w] = @ + 1]
  /\ state' = [state EXCEPT ![w].tickInterval = TRUE]

\* protocol.ts 597-618: the log of hello-ok settles and the tick timer starts
HelloLogged(w, i) ==
  /\ i \in DOMAIN tasks[w]
  /\ tasks[w][i].pc = "logHello"
  /\ \E ok \in Outcomes :
       /\ Failed(ok)
       /\ wsMessages' =
            IF ok THEN wsMessages \cup { LogRow(w, i, "outbound", "hello-ok", Undefined, 1708) }
            ELSE wsMessages
       /\ Settle(w, i, ok, "done")
       /\ IF ok THEN StartTick(w) ELSE UNCHANGED << timers, state >>
  /\ UNCHANGED << connections, requestRows, authAttempts, channelInteractions,
                  suspiciousActivities, sessions, httpVars, directVars, handlers,
                  readyState, hcPc, clients, sent, closePc >>

\* protocol.ts 628-662: the log of the request settles; handleRequest builds
\* the response, which is sent, and its log is awaited
RequestLogged(w, i) ==
  /\ i \in DOMAIN tasks[w]
  /\ tasks[w][i].pc = "logRequest"
  /\ \E ok \in Outcomes :
       /\ Failed(ok)
       /\ wsMessages' =
            IF ok
            THEN wsMessages \cup
                   { LogRow(w, i, "inbound", "req", Field(tasks[w][i].frame, "id"),
                            slice(RawLength(tasks[w][i].frame), 10000)) }
            ELSE wsMessages
       /\ Settle(w, i, ok, "logResponse")
       /\ IF ok THEN Send(w, handleRequest(handlers, i, tasks[w][i].frame))
          ELSE sent' = sent
  /\ UNCHANGED << connections, requestRows, authAttempts, channelInteractions,
                  suspiciousActivities, sessions, httpVars, directVars, handlers,
                  readyState, hcPc, clients, state, timers, closePc >>

\* protocol.ts 654-668: the log of the response settles
ResponseLogged(w, i) ==
  /\ i \in DOMAIN tasks[w]
  /\ tasks[w][i].pc = "logResponse"
  /\ \E ok \in Outcomes :
       /\ Failed(ok)
       /\ wsMessages' =
            IF ok
            THEN wsMessages \cup
                   { LogRow(w, i, "outbound", "res", Field(tasks[w][i].frame, "id"),
                            stringify(handleRequest(handlers, i, tasks[w][i].frame),
                                      tasks[w][i].frame)) }
            ELSE wsMessages
       /\ Settle(w, i, ok, "done")
  /\ UNCHANGED << connections, requestRows, authAttempts, channelInteractions,
                  suspiciousActivities, sessions, httpVars, directVars, handlers,
                  readyState, hcPc, clients, state, timers, sent, closePc >>

\* a seq that the tick callback leaves as it is
KeepSeq(n) == n

\* protocol.ts 614: state.seq++
IncrementSeq(n) == n + 1

\* a timer callback without the readyState test of protocol.ts 613
TickAlways(w) == TRUE

\* protocol.ts 613: the timer callback sends only on an open socket
TickOpen(w) == readyState[w] = "OPEN"

\* protocol.ts 612-617: a tick timer of the connection fires
Tick(w) ==
  /\ timers[w] > 0
  /\ state[w].seq < MaxTicks
  /\ TickOpen(w)
  /\ Send(w, generateTickEvent(state[w].seq))
  /\ state' = [state EXCEPT ![w].seq = IncrementSeq(@)]
  /\ UNCHANGED << storeVars, httpVars, directVars, handlers, readyState, hcPc, clients,
                  timers, tasks, closePc >>

\* protocol.ts 430-437: the socket closes; the close listener, if it has been
\* registered, clears the timer whose handle the state holds, evicts the
\* connection and awaits closeConnection
Close(w) ==
  /\ readyState[w] = "OPEN"
  /\ readyState' = [readyState EXCEPT ![w] = "CLOSED"]
  /\ IF hcPc[w] = "ready"
     THEN /\ timers' = [timers EXCEPT ![w] = IF state[w].tickInterval THEN @ - 1 ELSE @]
          /\ clients' = clients \ {w}
          /\ closePc' = [closePc EXCEPT ![w] = "closeConnection"]
     ELSE UNCHANGED << timers, clients, closePc >>
  /\ UNCHANGED << storeVars, httpVars, directVars, handlers, hcPc, state, tasks, sent >>

\* protocol.ts 436-440 and queries.ts 16-21: closeConnection settles; it
\* rejects as well when no row has the id (the fallback id); either rejection
\* is caught and logged
CloseConnectionDone(w) ==
  /\ closePc[w] = "closeConnection"
  /\ \E ok \in Outcomes :
       /\ Failed(ok)
       /\ connections' =
            IF ok
            THEN { IF c.id = state[w].dbConnectionId
                   THEN [c EXCEPT !.disconnected = TRUE] ELSE c : c \in connections }
            ELSE connections
  /\ closePc' = [closePc EXCEPT ![w] = "done"]
  /\ UNCHANGED << requestRows, wsMessages, authAttempts, channelInteractions,
                  suspiciousActivities, sessions, httpVars, directVars, handlers,
                  readyState, hcPc, clients, state, timers, tasks, sent >>

\* the event frames the rest of the program hands to broadcastEvent
BroadcastInputs ==
  { [ Wire("event", 0) EXCEPT !.event = "presence" ] }

BroadcastFrames(w) ==
  { k \in DOMAIN sent[w] :
      sent[w][k].type = "event" /\ sent[w][k].event # "tick" }

\* a broadcast that tests only the socket
BroadcastToOpen(w) == readyState[w] = "OPEN"

\* protocol.ts 704: the test broadcastEvent makes on an entry of `clients`
BroadcastEligible(w) == readyState[w] = "OPEN" /\ state[w].authenticated

\* protocol.ts 701-708: broadcastEvent walks the live-connection table and
\* sends the event on every eligible socket.  The write of a send may fail
\* on a socket that is still open (`failedWrites`); ws reports that through
\* the socket's error event and ws.send returns without throwing
broadcastEvent(event, failedWrites) ==
  sent' = [ w \in AllSockets |->
              IF w \in clients /\ BroadcastEligible(w)
              THEN Append(sent[w], [event EXCEPT !.delivered = w \notin failedWrites])
              ELSE sent[w] ]

\* the rest of the program calls broadcastEvent
Broadcast ==
  /\ \A w \in AllSockets : Cardinality(BroadcastFrames(w)) < MaxBroadcasts
  /\ \E event \in BroadcastInputs :
       \E failedWrites \in SUBSET { w \in clients : BroadcastEligible(w) } :
         broadcastEvent(event, failedWrites)
  /\ UNCHANGED << storeVars, httpVars, directVars, handlers, readyState, hcPc, clients,
                  state, timers, tasks, closePc >>

\* no call of the classifier has returned yet
NoAnalysis == [ called |-> FALSE, result |-> analyzePayload({}) ]

\* handlers.ts 824-891: analyzePayload is called on a text that matches the
\* pattern lists of any set of categories
Classify ==
  /\ \E cats \in SUBSET Categories :
       /\ payload' = cats
       /\ analysis' = [ called |-> TRUE, result |-> analyzePayload(cats) ]
  /\ UNCHANGED << storeVars, httpVars, wsVars, upserts, routeVars, proc >>

\* The `updates` arguments of the call sites (server.ts 58 and
\* channels/index.ts 120, protocol.ts 418, protocol.ts 568, handlers.ts
\* 920-926), and arguments that ask for several counters, for none, or pass
\* a false increment.
UpdateInputs ==
  { [ incrementRequests |-> TRUE ],
    [ incrementWsMessages |-> TRUE ],
    [ incrementAuthAttempts |-> TRUE ],
    SuspiciousUpdates(<< "scan" >>),
    SuspiciousUpdates(<< "sql_injection" >>),
    [ incrementRequests |-> TRUE, incrementSuspicious |-> TRUE ],
    [ incrementRequests |-> FALSE, incrementWsMessages |-> TRUE ],
    [ isBruteforcer |-> TRUE ] }

\* queries.ts 159-214: one updateAttackerSession call that the store
\* carries out; one behaviour follows the row of one IP
UpsertSession ==
  /\ \E ip \in IPs, updates \in UpdateInputs :
       /\ Len(upserts[ip]) < MaxCalls
       /\ \A other \in IPs \ {ip} : upserts[other] = << >>
       /\ sessions' = [sessions EXCEPT ![ip] = updateAttackerSession(@, updates)]
       /\ upserts' = [upserts EXCEPT ![ip] = Append(@, updates)]
  /\ UNCHANGED << connections, requestRows, wsMessages, authAttempts,
                  channelInteractions, suspiciousActivities, fails, httpVars,
                  wsVars, classifierVars, routeVars, proc >>

(***************************************************************************)
(* Routing of one HTTP request (gateway/server.ts, channels/index.ts;      *)
(* Express 4, whose router tries the routes in the order of their          *)
(* registration).  A path is the sequence of its segments.  In a pattern   *)
(* ":" is a parameter that fills a segment, "bot:" the parameter of        *)
(* "/bot:token", and a last "*" stands for one or more segments; the       *)
(* pattern << "*" >> is the "*" that matches every path.                   *)
(***************************************************************************)
Methods == {"GET", "POST"}

\* the segments that begin with the characters "bot"
BotSegments == {"bot", "bot123", "bottle"}

PathInputs ==
  { << >>, << "health" >>, << "api", "status" >>, << "api", "nothing" >>,
    << "api" >>, << "webhook", "slack" >>, << "webhook", "whatsapp" >>,
    << "webhook", "other" >>, << "webhook" >>, << "slack", "events" >>,
    << "interactions" >>, << "bot123", "getMe" >>, << "bot123", "x" >>,
    << "bot123" >>, << "bot" >>, << "bottle" >>, << "ui" >>, << "ui", "x" >>,
    << "control" >>, << "assets", "a.css" >>, << "favicon.ico" >>,
    << "hooks", "wake" >>, << "nothing" >>, << "nothing", "at", "all" >> }

\* the files under webRoot
FileInputs ==
  { {}, { << "index.html" >> }, { << "index.html" >>, << "assets", "a.css" >> } }

\* The body of the request.  `sent` tells whether the client sent none, a
\* text that is not JSON, or JSON, whose value is then `value`: null, a
\* number, or an object given by its fields (a field holding the number 1
\* is written "1").
JsNull == [t |-> "null"]

JsNumber == [t |-> "number"]

JsObject(fields) == [t |-> "object", fields |-> fields]

BodyInputs ==
  { [sent |-> "nothing"],
    [sent |-> "text"],
    [sent |-> "json", value |-> JsNull],
    [sent |-> "json", value |-> JsNumber],
    [sent |-> "json",
     value |-> JsObject([type |-> "url_verification", challenge |-> "c1"])],
    [sent |-> "json", value |-> JsObject([type |-> "url_verification"])],
    [sent |-> "json", value |-> JsObject([type |-> "1"])],
    [sent |-> "json", value |-> JsObject([type |-> "event_callback"])] }

\* channels/index.ts 19-28: a body that express.raw did not buffer is the
\* empty object req.body; a text that is not JSON is wrapped in { raw }
parseBody(body) ==
  IF body.sent = "nothing" THEN JsObject(<< >>)
  ELSE IF body.sent = "text" THEN JsObject([raw |-> "text"])
  ELSE body.value

\* value.k: reading a property of null throws a TypeError, a number has none
Throws(value) == value.t = "null"

Property(value, k) ==
  IF value.t = "object" THEN Field(value.fields, k) ELSE Undefined

\* server.ts 131-197 and channels/index.ts 123-304, in registration order.
\* `channel` is the tag given to handleChannelWebhook ("" for a route that
\* does not call it, ":" for the path parameter of /webhook/:channel),
\* `respond` names what the handler does next.
RouteOf(methods, pattern, channel, respond) ==
  [ methods |-> methods, pattern |-> pattern, channel |-> channel,
    respond |-> respond ]

RouteTable ==
  << RouteOf({"GET"}, << "health" >>, "", "json"),
     RouteOf({"GET"}, << "api", "status" >>, "", "json"),
     RouteOf({"POST"}, << "webhook", "whatsapp" >>, "whatsapp", "json"),
     RouteOf({"POST"}, << "webhook", "whatsapp", "send" >>, "whatsapp", "json"),
     RouteOf({"POST"}, << "bot:", "webhook" >>, "telegram", "json"),
     RouteOf({"POST"}, << "bot:", "setWebhook" >>, "telegram", "json"),
     RouteOf(Methods, << "bot:", "getMe" >>, "telegram", "json"),
     RouteOf({"POST"}, << "bot:", "sendMessage" >>, "telegram", "json"),
     RouteOf(Methods, << "bot:", "*" >>, "telegram", "json"),
     RouteOf({"POST"}, << "webhook", "discord" >>, "discord", "json"),
     RouteOf({"POST"}, << "api", "webhooks", ":", ":" >>, "discord", "204"),
     RouteOf({"POST"}, << "interactions" >>, "discord", "interactions"),
     RouteOf({"POST"}, << "webhook", "slack" >>, "slack", "slackJson"),
     RouteOf({"POST"}, << "slack", "events" >>, "slack", "slackEnd"),
     RouteOf({"POST"}, << "slack", "commands" >>, "slack", "json"),
     RouteOf({"POST"}, << "slack", "interactive" >>, "slack", "200"),
     RouteOf({"POST"}, << "webhook", "signal" >>, "signal", "json"),
     RouteOf({"POST"}, << "v1", "send" >>, "signal", "json"),
     RouteOf({"POST"}, << "webhook", ":" >>, ":", "json"),
     RouteOf({"POST"}, << "hooks", "wake" >>, "hooks", "json"),
     RouteOf({"POST"}, << "hooks", "agent" >>, "hooks", "json"),
     RouteOf({"POST"}, << "hooks", "*" >>, "hooks", "json"),
     RouteOf({"GET"}, << "assets", "*" >>, "", "static"),
     RouteOf({"GET"}, << "styles", "*" >>, "", "static"),
     RouteOf({"GET"}, << "js", "*" >>, "", "static"),
     RouteOf({"GET"}, << "favicon.ico" >>, "", "204"),
     RouteOf({"GET"}, << "favicon.svg" >>, "", "svg"),
     RouteOf({"GET"}, << >>, "", "ui"),
     RouteOf({"GET"}, << "ui" >>, "", "ui"),
     RouteOf({"GET"}, << "ui", "*" >>, "", "ui"),
     RouteOf({"GET"}, << "control" >>, "", "ui"),
     RouteOf({"GET"}, << "chat" >>, "", "ui"),
     RouteOf({"GET"}, << "*" >>, "", "catchAll") >>

SegmentMatches(p, segment) ==
  IF p = ":" THEN TRUE
  ELSE IF p = "bot:" THEN segment \in BotSegments \ {"bot"}
  ELSE p = segment

Matches(pattern, path) ==
  IF pattern = << "*" >> THEN TRUE
  ELSE IF pattern # << >> /\ pattern[Len(pattern)] = "*"
       THEN /\ Len(path) >= Len(pattern)
            /\ \A i \in 1..(Len(pattern) - 1) : SegmentMatches(pattern[i], path[i])
       ELSE /\ Len(path) = Len(pattern)
            /\ \A i \in 1..Len(pattern) : SegmentMatches(pattern[i], path[i])

\* the first route from the i-th on that takes the request, Len + 1 when
\* none does; express.static passes a file it does not find on
RECURSIVE Route(_, _)
Route(q, i) ==
  IF i > Len(RouteTable) THEN i
  ELSE IF /\ q.method \in RouteTable[i].methods
          /\ Matches(RouteTable[i].pattern, q.path)
          /\ RouteTable[i].respond = "static" => q.path \in q.files
       THEN i
       ELSE Route(q, i + 1)

\* what res carries: the status and the body that were sent, status 0 while
\* nothing was sent
Reply(status, body) == [ status |-> status, body |-> body ]

NoReply == Reply(0, << "none" >>)

\* server.ts 214-263: index.html of webRoot, or the built-in page when
\* sendFile reports an error
serveControlUi(q) ==
  IF << "index.html" >> \in q.files
  THEN Reply(200, << "html", "index.html" >>)
  ELSE Reply(200, << "html", "built-in" >>)

\* server.ts 186-197: the handler of app.get("*")
CatchAll(q) ==
  IF \/ Len(q.path) >= 2 /\ q.path[1] = "api"
     \/ Len(q.path) >= 2 /\ q.path[1] = "webhook"
     \/ Len(q.path) >= 1 /\ q.path[1] \in BotSegments
  THEN Reply(404, << "json", "Not Found" >>)
  ELSE serveControlUi(q)

\* the part of a route handler that runs without awaiting anything; for a
\* webhook route it is the part after `await handleChannelWebhook`
\* (channels/index.ts 205-252).  A handler that throws sends nothing.
HandlerThrows(q, route) ==
  /\ route.respond \in {"interactions", "slackJson", "slackEnd"}
  /\ Throws(parseBody(q.body))

RouteResponse(q, route) ==
  LET parsed == parseBody(q.body) IN
  CASE route.respond = "json" -> Reply(200, << "json", "canned" >>)
    [] route.respond = "204" -> Reply(204, << "empty" >>)
    [] route.respond = "200" -> Reply(200, << "empty" >>)
    [] route.respond = "svg" -> Reply(200, << "svg" >>)
    [] route.respond = "static" -> Reply(200, << "file" >> \o q.path)
    [] route.respond = "ui" -> serveControlUi(q)
    [] route.respond = "catchAll" -> CatchAll(q)
    [] route.respond = "interactions" ->
         IF Property(parsed, "type") = "1"
         THEN Reply(200, << "json", "pong" >>)
         ELSE Reply(200, << "json", "canned" >>)
    [] route.respond \in {"slackJson", "slackEnd"} ->
         IF Property(parsed, "type") = "url_verification"
         THEN IF Property(parsed, "challenge") = Undefined
              THEN Reply(200, << "empty" >>)
              ELSE Reply(200, << "text", Property(parsed, "challenge") >>)
         ELSE IF route.respond = "slackJson"
              THEN Reply(200, << "json", "canned" >>)
              ELSE Reply(200, << "empty" >>)

IdleReq ==
  [ pc |-> "idle", method |-> "GET", path |-> << >>,
    body |-> [sent |-> "nothing"], files |-> {} ]

\* server.ts 34-69: the request arrives and the logging middleware runs to
\* its awaits
RouteArrive ==
  /\ req.pc = "idle"
  /\ \E method \in Methods, path \in PathInputs, body \in BodyInputs,
        files \in FileInputs :
       req' = [ pc |-> "middleware", method |-> method, path |-> path,
                body |-> body, files |-> files ]
  /\ UNCHANGED << res, storeVars, httpVars, wsVars, classifierVars, upserts,
                  proc >>

\* server.ts 58-127: the awaits of the middleware settle.  A rejection of
\* updateAttackerSession or analyzeAndLogSuspicious is not caught and next()
\* is never called; otherwise next() runs the first matching route up to
\* its answer or to its `await handleChannelWebhook`.  A request that no
\* route takes gets the 404 page of Express.
RouteMiddlewareDone ==
  /\ req.pc = "middleware"
  /\ \E ok \in Outcomes :
       /\ Failed(ok)
       /\ LET i == Route(req, 1) IN
          IF ~ok
          THEN req' = [req EXCEPT !.pc = "rejected"] /\ UNCHANGED res
          ELSE IF i > Len(RouteTable)
          THEN /\ req' = [req EXCEPT !.pc = "done"]
               /\ res' = Reply(404, << "html", "Cannot " \o req.method >>)
          ELSE IF RouteTable[i].channel # ""
          THEN req' = [req EXCEPT !.pc = "webhook"] /\ UNCHANGED res
          ELSE /\ req' = [req EXCEPT !.pc = "done"]
               /\ res' = RouteResponse(req, RouteTable[i])
  /\ UNCHANGED << connections, requestRows, wsMessages, authAttempts,
                  channelInteractions, suspiciousActivities, sessions,
                  httpVars, wsVars, classifierVars, upserts, proc >>

\* channels/index.ts 123-304: the channel tag a route passes to
\* handleChannelWebhook, req.params.channel for /webhook/:channel
ChannelTag(q, route) ==
  IF route.channel = ":" THEN q.path[2] ELSE route.channel

\* channels/index.ts 30-121 and 123-304: the awaits of handleChannelWebhook
\* settle and the rest of the route handler runs; an exception rejects the
\* promise of the async handler and nothing is sent.  `ok` is the outcome
\* of the awaits that are not caught, analyzeAndLogSuspicious (45, `early`)
\* and updateAttackerSession (120); `logged` is the outcome of
\* logChannelInteraction (101-117), whose rejection is caught and which is
\* not reached after an early rejection.
RouteWebhookDone ==
  /\ req.pc = "webhook"
  /\ \E ok \in Outcomes, logged \in Outcomes, early \in BOOLEAN :
       /\ early => ~ok /\ logged
       /\ fails' = fails + (IF ok THEN 0 ELSE 1) + (IF logged THEN 0 ELSE 1)
       /\ fails' <= MaxFail
       /\ LET route == RouteTable[Route(req, 1)] IN
          /\ channelInteractions' =
               IF logged /\ ~early
               THEN channelInteractions \cup
                      { [ channel |-> ChannelTag(req, route),
                          endpoint |-> req.path,
                          httpMethod |-> req.method,
                          responseCode |-> 200 ] }
               ELSE channelInteractions
          /\ IF ~ok \/ HandlerThrows(req, route)
             THEN req' = [req EXCEPT !.pc = "rejected"] /\ UNCHANGED res
             ELSE /\ req' = [req EXCEPT !.pc = "done"]
                  /\ res' = RouteResponse(req, route)
  /\ UNCHANGED << connections, requestRows, wsMessages, authAttempts,
                  suspiciousActivities, sessions,
                  httpVars, wsVars, classifierVars, upserts, proc >>

(***************************************************************************)
(* Shutdown (index.ts, main).                                              *)
(***************************************************************************)
\* process.exit: the process is gone with its sockets, its timers and every
\* continuation that was waiting for a store call
Exit ==
  /\ proc' = "exited"
  /\ readyState' = [w \in AllSockets |-> "CLOSED"]
  /\ hcPc' = [w \in AllSockets |-> "exited"]
  /\ closePc' = [w \in AllSockets |-> "exited"]
  /\ timers' = [w \in AllSockets |-> 0]
  /\ clients' = {}
  /\ tasks' = [w \in AllSockets |->
                 [i \in DOMAIN tasks[w] |->
                    IF tasks[w][i].pc \in {"done", "failed", "lost"}
                    THEN tasks[w][i]
                    ELSE [tasks[w][i] EXCEPT !.pc = "lost"]]]
  /\ UNCHANGED << storeVars, httpVars, handlers, state, sent, classifierVars,
                  upserts, routeVars >>

\* index.ts 51-70: SIGTERM or SIGINT runs shutdown, which calls server.close
\* (the listener accepts no further connection) and arms the 10 s timer
Signal ==
  /\ proc = "running"
  /\ proc' = "stopping"
  /\ readyState' = [w \in AllSockets |->
                      IF readyState[w] = "NONE" THEN "CLOSED" ELSE readyState[w]]
  /\ UNCHANGED << storeVars, httpVars, handlers, hcPc, clients, state, timers,
                  tasks, sent, closePc, classifierVars, upserts, routeVars >>

\* index.ts 55-60: the callback of server.close runs once every connection
\* of the server has ended, the upgraded ones included, and exits with 0
ServerClosed ==
  /\ proc = "stopping"
  /\ \A w \in AllSockets : readyState[w] # "OPEN"
  /\ Exit

\* index.ts 63-66: the 10 s timer fires and exits with 1
ForcedExit ==
  /\ proc = "stopping"
  /\ Exit

(***************************************************************************)
(* Specifications.                                                         *)
(***************************************************************************)
Init ==
  /\ connections = {}
  /\ requestRows = {}
  /\ wsMessages = {}
  /\ authAttempts = {}
  /\ channelInteractions = {}
  /\ suspiciousActivities = {}
  /\ sessions = [ip \in IPs |-> NoSession]
  /\ fails = 0
  /\ http = [r \in Requests |-> IdleRequest]
  /\ handlers = registerHandler(RegisteredCalls)
  /\ readyState = [w \in AllSockets |-> "NONE"]
  /\ hcPc = [w \in AllSockets |-> "idle"]
  /\ clients = {}
  /\ state = [w \in AllSockets |-> NoState]
  /\ timers = [w \in AllSockets |-> 0]
  /\ tasks = [w \in AllSockets |-> << >>]
  /\ sent = [w \in AllSockets |-> << >>]
  /\ closePc = [w \in AllSockets |-> "idle"]
  /\ payload = {}
  /\ analysis = NoAnalysis
  /\ upserts = [ip \in IPs |-> << >>]
  /\ req = IdleReq
  /\ res = NoReply
  /\ proc = "running"

\* the HTTP surface
NextHttp ==
  \E r \in Requests :
    \/ HttpArrive(r)
    \/ MwConnectionDone(r)
    \/ MwSessionDone(r)
    \/ SuspiciousLogged(r)
    \/ SuspiciousSessionDone(r)
    \/ ChannelInteractionDone(r)
    \/ ChannelSessionDone(r)
    \/ FinishLogged(r)

SpecHttp == Init /\ [][NextHttp]_vars

\* the WebSocket surface
NextWs ==
  \/ Broadcast
  \/ \E w \in Sockets :
    \/ Upgrade(w)
    \/ HcConnectionDone(w)
    \/ HcSessionDone(w)
    \/ ClientSend(w)
    \/ Tick(w)
    \/ Close(w)
    \/ CloseConnectionDone(w)
    \/ \E i \in 1..MaxFrames :
         \/ InvalidLogged(w, i)
         \/ OtherLogged(w, i)
         \/ ConnectLogged(w, i)
         \/ AuthLogged(w, i)
         \/ AuthSessionDone(w, i)
         \/ HelloLogged(w, i)
         \/ RequestLogged(w, i)
         \/ ResponseLogged(w, i)

SpecWs == Init /\ [][NextWs]_vars

\* several connections, each doing its handshake, and broadcasts
NextBroadcast ==
  \/ Broadcast
  \/ \E w \in Peers :
       \/ Upgrade(w)
       \/ HcConnectionDone(w)
       \/ HcSessionDone(w)
       \/ PeerConnect(w)
       \/ ConnectLogged(w, 1)
       \/ AuthLogged(w, 1)
       \/ AuthSessionDone(w, 1)
       \/ HelloLogged(w, 1)
       \/ Close(w)
       \/ CloseConnectionDone(w)

SpecBroadcast == Init /\ [][NextBroadcast]_vars

\* the same connections when every store call settles at last: each
\* continuation that waits for a store call is resumed (the clients stay
\* free to send, to close or to do neither)
StoreSettles ==
  \A w \in Peers :
    /\ WF_vars(HcConnectionDone(w))
    /\ WF_vars(HcSessionDone(w))
    /\ WF_vars(ConnectLogged(w, 1))
    /\ WF_vars(AuthLogged(w, 1))
    /\ WF_vars(AuthSessionDone(w, 1))
    /\ WF_vars(HelloLogged(w, 1))
    /\ WF_vars(CloseConnectionDone(w))

SpecSettling == SpecBroadcast /\ StoreSettles

\* the classifier alone, called on any payload
NextClassifier == Classify

SpecClassifier == Init /\ [][NextClassifier]_vars

\* direct calls of updateAttackerSession
NextSession == UpsertSession

SpecSession == Init /\ [][NextSession]_vars

\* the routing of one HTTP request
NextRoutes ==
  \/ RouteArrive
  \/ RouteMiddlewareDone
  \/ RouteWebhookDone

SpecRoutes == Init /\ [][NextRoutes]_vars

\* several connections, each doing its handshake, and a shutdown
NextShutdown ==
  \/ Signal
  \/ ServerClosed
  \/ ForcedExit
  \/ \E w \in Peers :
       \/ Upgrade(w)
       \/ HcConnectionDone(w)
       \/ HcSessionDone(w)
       \/ PeerConnect(w)
       \/ ConnectLogged(w, 1)
       \/ AuthLogged(w, 1)
       \/ AuthSessionDone(w, 1)
       \/ HelloLogged(w, 1)
       \/ Close(w)
       \/ CloseConnectionDone(w)

SpecShutdown == Init /\ [][NextShutdown]_vars

\* one connection whose client does the handshake and then sends request
\* frames one after the other
NextPipelined ==
  \E w \in Sockets :
    \/ Upgrade(w)
    \/ HcConnectionDone(w)
    \/ HcSessionDone(w)
    \/ PeerConnect(w)
    \/ ConnectLogged(w, 1)
    \/ AuthLogged(w, 1)
    \/ AuthSessionDone(w, 1)
    \/ HelloLogged(w, 1)
    \/ RequestSend(w)
    \/ \E i \in 2..(1 + MaxRequests) :
         \/ RequestLogged(w, i)
         \/ ResponseLogged(w, i)
    \/ Close(w)
    \/ CloseConnectionDone(w)

SpecPipelined == Init /\ [][NextPipelined]_vars

\* one connection and its first frame, which may be any JSON value
NextFirstFrame ==
  \E w \in Sockets :
    \/ Upgrade(w)
    \/ HcConnectionDone(w)
    \/ HcSessionDone(w)
    \/ FirstFrame(w)
    \/ InvalidLogged(w, 1)
    \/ ConnectLogged(w, 1)
    \/ AuthLogged(w, 1)
    \/ AuthSessionDone(w, 1)
    \/ HelloLogged(w, 1)
    \/ Tick(w)
    \/ Close(w)
    \/ CloseConnectionDone(w)

SpecFirstFrame == Init /\ [][NextFirstFrame]_vars

(***************************************************************************)
(* Claims.                                                                 *)
(***************************************************************************)
Ended(t) == t.pc \in {"done", "failed", "lost"}

TasksOf(w) == DOMAIN tasks[w]

\* frames the server sent in answer to inbound frame i of socket w and that
\* reached the client
Replies(w, i, type) ==
  { k \in DOMAIN sent[w] :
      sent[w][k].src = i /\ sent[w][k].type = type /\ sent[w][k].delivered }

RowsOf(w, i, direction, frameType) ==
  { m \in wsMessages :
      m.src = << w, i >> /\ m.direction = direction /\ m.frameType = frameType }

\* C1: for every IP, a flag of its AttackerSession that is true stays true in
\* every later state, whatever update of the session comes next.
C1_FlagsSticky ==
  [][ \A ip \in IPs :
        /\ sessions[ip].isScanner => sessions'[ip].isScanner
        /\ sessions[ip].isExploiter => sessions'[ip].isExploiter
        /\ sessions[ip].isBruteforcer => sessions'[ip].isBruteforcer ]_vars

\* C2: on a socket that is still open, once the handling of a connect frame or
\* of a request frame has ended, with or without a rejected store write, the
\* hello-ok or the response has been sent and the connection is AUTHENTICATED.
C2_StoreFailureKeepsReply ==
  \A w \in Sockets : \A i \in TasksOf(w) :
    ( /\ readyState[w] = "OPEN"
      /\ tasks[w][i].kind \in {"connect", "req"}
      /\ Ended(tasks[w][i]) )
    => /\ state[w].authenticated
       /\ Replies(w, i, IF tasks[w][i].kind = "connect" THEN "hello-ok" ELSE "res") # {}

\* C3: once the processing of an HTTP request has ended, with or without a
\* rejected store write, its endpoint handler has been invoked and the client
\* has the endpoint's normal response.
C3_StoreFailureKeepsHttpResponse ==
  \A r \in Requests :
    http[r].pc \in {"done", "rejected"}
    => http[r].handlerInvoked /\ http[r].response = "normal"

\* the method C4 names: password if auth.password is present, else token if
\* auth.token is present, else none
PresentMethod(f) ==
  IF Credential(f, "password") # Undefined THEN "password"
  ELSE IF Credential(f, "token") # Undefined THEN "token"
  ELSE "none"

\* C4: on a socket that is still open, once a JSON object sent while the
\* connection was NEW has been dealt with, an AuthAttempt with success = true
\* and the method of the auth block present is written, hello-ok has been
\* sent, a tick timer runs and the connection is AUTHENTICATED.
C4_HandshakeAccepted ==
  \A w \in Sockets : \A i \in TasksOf(w) :
    ( /\ readyState[w] = "OPEN"
      /\ tasks[w][i].kind = "connect"
      /\ tasks[w][i].frame.shape = "object"
      /\ Ended(tasks[w][i]) )
    => /\ \E a \in authAttempts :
            /\ a.src = << w, i >>
            /\ a.success
            /\ a.method = PresentMethod(tasks[w][i].frame)
       /\ Replies(w, i, "hello-ok") # {}
       /\ timers[w] > 0
       /\ state[w].authenticated

\* C5: on a socket that is still open, once a request frame received on an
\* AUTHENTICATED connection has been dealt with, exactly one response frame
\* with its id has been sent for it, and an inbound req row and an outbound
\* res row with that id are recorded.
C5_RequestAnsweredOnce ==
  \A w \in Sockets : \A i \in TasksOf(w) :
    ( /\ readyState[w] = "OPEN"
      /\ tasks[w][i].kind = "req"
      /\ Ended(tasks[w][i]) )
    => /\ Cardinality(Replies(w, i, "res")) = 1
       /\ \A k \in Replies(w, i, "res") :
            sent[w][k].id = Field(tasks[w][i].frame, "id")
       /\ \E m \in RowsOf(w, i, "inbound", "req") :
            m.requestId = Field(tasks[w][i].frame, "id")
       /\ \E m \in RowsOf(w, i, "outbound", "res") :
            m.requestId = Field(tasks[w][i].frame, "id")

\* C6: on a socket that is still open, once a request frame whose method has
\* no handler has been dealt with, a response with ok = false, error code
\* method_not_found and the request's id has been sent, and the connection
\* is still AUTHENTICATED.
C6_UnknownMethodAnswered ==
  \A w \in Sockets : \A i \in TasksOf(w) :
    ( /\ readyState[w] = "OPEN"
      /\ tasks[w][i].kind = "req"
      /\ Field(tasks[w][i].frame, "method") \notin handlers
      /\ Ended(tasks[w][i]) )
    => /\ \E k \in Replies(w, i, "res") :
            /\ ~sent[w][k].ok
            /\ sent[w][k].code = "method_not_found"
            /\ sent[w][k].id = Field(tasks[w][i].frame, "id")
       /\ state[w].authenticated

\* C7: every method advertised in hello-ok has a handler in the registry, the
\* registry is the one built at start-up, and no response to a request for an
\* advertised method carries method_not_found.
C7_AdvertisedMethodsHandled ==
  /\ GATEWAY_METHODS \subseteq handlers
  /\ handlers = registerHandler(RegisteredCalls)
  /\ \A w \in Sockets : \A k \in DOMAIN sent[w] :
       ( /\ sent[w][k].type = "res"
         /\ Field(tasks[w][sent[w][k].src].frame, "method") \in GATEWAY_METHODS )
       => sent[w][k].ok /\ sent[w][k].code # "method_not_found"

\* C7 witness: a request for an advertised method has been answered with a
\* response that reached the client and carries ok = true.
C7_Witness ==
  \E w \in Sockets : \E k \in DOMAIN sent[w] :
    /\ sent[w][k].type = "res"
    /\ sent[w][k].delivered
    /\ sent[w][k].ok
    /\ Field(tasks[w][sent[w][k].src].frame, "method") \in GATEWAY_METHODS

\* C8: once an inbound frame that is not valid JSON, or that is JSON without
\* a type on an AUTHENTICATED connection, has been dealt with and no store
\* write was rejected, exactly one inbound row of kind invalid records it.
C8_InvalidFrameRecorded ==
  \A w \in Sockets : \A i \in TasksOf(w) :
    ( /\ \/ tasks[w][i].frame.shape = "badjson"
         \/ /\ tasks[w][i].kind \notin {"connect", "lost"}
            /\ ~Has(tasks[w][i].frame, "type")
      /\ tasks[w][i].pc \in {"done", "lost"} )
    => /\ Cardinality(RowsOf(w, i, "inbound", "invalid")) = 1
       /\ Cardinality({ m \in wsMessages : m.src = << w, i >> }) = 1

\* C9: once the close listener of a socket has run, the connection has no
\* running tick timer and is absent from the live-connection table, and once
\* closeConnection has settled with no store call rejected its Connection
\* has disconnected-at written.
C9_CloseReleasesConnection ==
  \A w \in Sockets :
    /\ closePc[w] \in {"closeConnection", "done"}
       => timers[w] = 0 /\ w \notin clients
    /\ (closePc[w] = "done" /\ fails = 0)
       => \E c \in connections : c.id = state[w].dbConnectionId /\ c.disconnected

\* C10: every tick put on a socket was sent while the socket was open, and
\* after a hello-ok had been sent on that socket.
C10_TickOnlyOpenAfterHello ==
  \A w \in Sockets : \A k \in DOMAIN sent[w] :
    sent[w][k].event = "tick"
    => /\ sent[w][k].delivered
       /\ \E j \in 1..(k - 1) : sent[w][j].type = "hello-ok"

\* C10 witness: ticks were sent on a connection whose socket has since
\* closed while a timer of it still runs.
C10_Witness ==
  \E w \in Sockets :
    /\ readyState[w] = "CLOSED"
    /\ timers[w] > 0
    /\ \E k \in DOMAIN sent[w] : sent[w][k].event = "tick"

\* the ticks sent on socket w, by position in the order of sending
Ticks(w) == { k \in DOMAIN sent[w] : sent[w][k].event = "tick" }

\* C11: on each connection, of two tick events the later one carries the
\* greater seq, whatever was sent or received between them.
C11_TickSeqIncreasing ==
  \A w \in Sockets : \A j, k \in Ticks(w) :
    j < k => sent[w][j].seq < sent[w][k].seq

\* C11 witness: two ticks of one connection with a broadcast event sent
\* between them, on a connection that has also answered a request.
C11_Witness ==
  \E w \in Sockets : \E j, k \in Ticks(w) :
    /\ \E m \in BroadcastFrames(w) : j < m /\ m < k
    /\ \E m \in DOMAIN sent[w] : sent[w][m].type = "res"

\* C12: on each connection the number of event frames sent, ticks and
\* broadcast events together, equals the connection's seq.
C12_SeqCountsEvents ==
  \A w \in Sockets :
    Cardinality({ k \in DOMAIN sent[w] : sent[w][k].type = "event" }) = state[w].seq

\* a broadcast event has just been put on socket w
Broadcasted(w) ==
  /\ Len(sent'[w]) = Len(sent[w]) + 1
  /\ sent'[w][Len(sent'[w])].type = "event"
  /\ sent'[w][Len(sent'[w])].event # "tick"

\* C13: a broadcast puts the event on exactly the sockets that are in the
\* live-connection table, open and AUTHENTICATED when it runs, whether or
\* not the write on another socket fails.
C13_BroadcastReachesEligible ==
  [][ (\E v \in Peers : Broadcasted(v))
      => \A w \in Peers :
           Broadcasted(w)
           <=> (w \in clients /\ readyState[w] = "OPEN" /\ state[w].authenticated)
    ]_vars

\* C13 witness: one broadcast has reached two connections, and the write
\* failed on the first and succeeded on the second.
C13_Witness ==
  \E v, w \in Peers :
    /\ v < w
    /\ \E k \in BroadcastFrames(v) : ~sent[v][k].delivered
    /\ \E k \in BroadcastFrames(w) : sent[w][k].delivered

\* the base severity of each category
BaseSeverity ==
  [ sql_injection |-> "high", command_injection |-> "critical", xss |-> "medium",
    path_traversal |-> "high", prompt_injection |-> "medium", scan |-> "low",
    exploit |-> "critical" ]

\* C14: every SuspiciousActivity row carries a category that the payload
\* matched and the base severity of that category.
C14_RowHasBaseSeverity ==
  \A a \in suspiciousActivities :
    LET h == http[a.src[1]]
    IN  /\ a.type \in (IF a.src[2] = "mw" THEN h.cats ELSE h.bodyCats)
        /\ a.severity = BaseSeverity[a.type]

\* C15: once a flagged inbound frame has been dealt with, with no store
\* write rejected, a SuspiciousActivity row exists for each category it
\* matched and the sender's AttackerSession counts a suspicious payload.
C15_FlaggedFrameRecorded ==
  \A w \in Sockets : \A i \in TasksOf(w) :
    ( /\ tasks[w][i].pc = "done"
      /\ FrameAnalysis(tasks[w][i].frame).isSuspicious )
    => /\ \A c \in tasks[w][i].frame.cats :
            \E a \in suspiciousActivities :
              a.type = c /\ a.ipAddress = state[w].ipAddress
       /\ sessions[state[w].ipAddress].suspiciousCount > 0

SeverityRank == [ low |-> 1, medium |-> 2, high |-> 3, critical |-> 4 ]

\* the maximum of the base severities of the matched categories; a payload
\* that matches no category has none, its severity is unassigned
MaxBaseSeverity(cats) ==
  IF cats = {} THEN Undefined
  ELSE CHOOSE s \in { BaseSeverity[c] : c \in cats } :
         \A c \in cats : SeverityRank[BaseSeverity[c]] <= SeverityRank[s]

\* C16: for every set of matched categories, the severity analyzePayload
\* returns is the maximum of the base severities of the matched categories.
C16_SeverityIsMaximum ==
  analysis.called => analysis.result.severity = MaxBaseSeverity(payload)

\* the same for the payloads that match at least one category
C16_SeverityIsMaximumOfMatched ==
  (analysis.called /\ payload # {})
  => analysis.result.severity = MaxBaseSeverity(payload)

\* C17: once a request whose payload matches no category has been served,
\* no SuspiciousActivity row stems from it, its sender's session counts no
\* suspicious payload unless another request of the sender was flagged, and
\* the severity of its classification is unassigned.
C17_UnmatchedLeavesNoTrace ==
  \A r \in Requests :
    (http[r].pc = "done" /\ http[r].cats = {} /\ http[r].bodyCats = {})
    => /\ \A a \in suspiciousActivities : a.src[1] # r
       /\ (\A q \in Requests : http[q].ip = http[r].ip => http[q].cats = {})
          => sessions[http[r].ip].suspiciousCount = 0
       /\ ~analyzePayload(http[r].cats).isSuspicious
       /\ analyzePayload(http[r].cats).severity = Undefined

\* the same without the severity
C17_UnmatchedWritesNothing ==
  \A r \in Requests :
    (http[r].pc = "done" /\ http[r].cats = {} /\ http[r].bodyCats = {})
    => /\ \A a \in suspiciousActivities : a.src[1] # r
       /\ (\A q \in Requests : http[q].ip = http[r].ip => http[q].cats = {})
          => sessions[http[r].ip].suspiciousCount = 0
       /\ ~analyzePayload(http[r].cats).isSuspicious

\* C18: a served request to a channel webhook whose payload matches exactly
\* one category has exactly one SuspiciousActivity row.
C18_OneRowPerWebhookHit ==
  \A r \in Requests :
    ( /\ http[r].pc = "done"
      /\ http[r].route = "channel"
      /\ Cardinality(http[r].cats) = 1 )
    => Cardinality({ a \in suspiciousActivities : a.src[1] = r }) = 1

\* C19: the session update that ends the processing of a flagged payload
\* leaves, on the session of the address the payload was attributed to,
\* isScanner true if the payload matched scan and isExploiter true if
\* it matched exploit or command_injection; isBruteforcer is never true.
C19_FlagsFollowCategories ==
  /\ [][ \A r \in Requests :
           (http[r].pc = "flags" /\ http'[r].pc \notin {"flags", "rejected"})
           => LET cats == IF http[r].stage = "mw" THEN http[r].cats
                          ELSE http[r].bodyCats
                  row == sessions'[IpAddress(http[r])]
              IN  /\ "scan" \in cats => row.isScanner
                  /\ (cats \cap {"exploit", "command_injection"} # {})
                     => row.isExploiter ]_vars
  /\ [](\A ip \in IPs : ~sessions[ip].isBruteforcer)

\* C19 witness: a request that matched scan and a request that matched
\* command_injection have been served, and the sessions of their senders
\* carry isScanner and isExploiter.
C19_Witness ==
  \E r, q \in Requests :
    /\ http[r].pc = "done" /\ "scan" \in http[r].cats
    /\ sessions[http[r].ip].isScanner
    /\ http[q].pc = "done" /\ "command_injection" \in http[q].cats
    /\ sessions[http[q].ip].isExploiter

\* C20: when the handler of a request's endpoint has been invoked, the
\* Connection insert of the request has settled, the requests counter of
\* the sender's session has been bumped for it and a SuspiciousActivity row
\* of the middleware exists for every category its payload matched; a
\* Request row exists only for a request whose response has been sent.
C20_PersistBeforeHandler ==
  /\ \A r \in Requests :
       http[r].handlerInvoked
       => /\ http[r].connectionId \in { RowId("http", r), Uuid("http", r) }
          /\ http[r].connectionId = RowId("http", r)
             => \E c \in connections : c.id = http[r].connectionId
          /\ sessions[http[r].ip].requestCount
               >= Cardinality({ q \in Requests : /\ http[q].ip = http[r].ip
                                                  /\ http[q].handlerInvoked })
          /\ \A c \in http[r].cats :
               \E a \in suspiciousActivities :
                 a.src = << r, "mw" >> /\ a.type = c
  /\ \A row \in requestRows : http[row.src].response = "normal"

\* C20 witness: a flagged request has been served and its Request row is
\* written.
C20_Witness ==
  \E r \in Requests :
    /\ http[r].handlerInvoked
    /\ http[r].cats # {}
    /\ \E row \in requestRows : row.src = r

C22_SessionForEveryIp ==
  \A row \in connections \cup authAttempts \cup channelInteractions
               \cup suspiciousActivities :
    /\ sessions[row.ipAddress].exists
    /\ \/ sessions[row.ipAddress].requestCount > 0
       \/ sessions[row.ipAddress].wsMessageCount > 0

\* the same once the request has been answered or abandoned: no session row
\* is left behind a Connection row whose session update was rejected
C22_SessionForEveryIpAtRest ==
  (\A r \in Requests : http[r].pc \in {"idle", "done", "rejected"})
    => C22_SessionForEveryIp


\* the calls so far for `ip` that asked to increment the counter of `flag`
Asked(ip, flag) ==
  Cardinality({ i \in DOMAIN upserts[ip] : Truthy(upserts[ip][i], flag) })

CountersMatchCalls(ip) ==
  /\ sessions[ip].exists <=> upserts[ip] # << >>
  /\ sessions[ip].requestCount = Asked(ip, "incrementRequests")
  /\ sessions[ip].wsMessageCount = Asked(ip, "incrementWsMessages")
  /\ sessions[ip].authAttemptCount = Asked(ip, "incrementAuthAttempts")
  /\ sessions[ip].suspiciousCount = Asked(ip, "incrementSuspicious")

\* C23: after any sequence of updateAttackerSession calls for one IP that
\* starts from no row, each counter equals the number of calls so far that
\* asked to increment it, the creating call included, and no call makes a
\* counter smaller.
C23_CountersCountCalls ==
  /\ [](\A ip \in IPs : CountersMatchCalls(ip))
  /\ [][\A ip \in IPs :
          /\ sessions'[ip].requestCount >= sessions[ip].requestCount
          /\ sessions'[ip].wsMessageCount >= sessions[ip].wsMessageCount
          /\ sessions'[ip].authAttemptCount >= sessions[ip].authAttemptCount
          /\ sessions'[ip].suspiciousCount >= sessions[ip].suspiciousCount]_vars

\* three calls with the same updates, the first of which created the row,
\* have counted three times
C23_Witness ==
  \E ip \in IPs :
    /\ Len(upserts[ip]) = 3
    /\ \A i \in 1..3 :
         upserts[ip][i] = [ incrementRequests |-> TRUE, incrementSuspicious |-> TRUE ]
    /\ sessions[ip].requestCount = 3
    /\ sessions[ip].suspiciousCount = 3


\* C24: the body of a persisted Request row is the first min(length, 10000)
\* characters of the body the client sent and its bodySize is the full
\* length of that body.
C24_BodyTruncatedSizeKept ==
  \A row \in requestRows :
    /\ row.body = slice(http[row.src].bodyLength, 10000)
    /\ row.bodySize = http[row.src].bodyLength

\* the same for the requests that carry a Content-Type header
C24_BufferedBodyTruncatedSizeKept ==
  \A row \in requestRows :
    http[row.src].contentType =>
      /\ row.body = slice(http[row.src].bodyLength, 10000)
      /\ row.bodySize = http[row.src].bodyLength


\* every stored text but the raw of an outbound WebSocketMessage row is
\* within its limit
LimitsButOutboundRaw ==
  /\ \A row \in wsMessages : row.direction = "inbound" => row.raw <= 10000
  /\ \A row \in requestRows : row.responseBody <= 5000
  /\ \A row \in suspiciousActivities : row.payload <= 5000
  /\ \A row \in authAttempts : row.credentialRaw <= 100

\* C25: every persisted row is within the hard limits: the raw of a
\* WebSocketMessage row, inbound or outbound, has at most 10000 characters,
\* the responseBody of a Request row at most 5000, the payload of a
\* SuspiciousActivity row at most 5000 and the credential prefix of an
\* AuthAttempt row at most 100.
C25_RowsWithinLimits ==
  /\ LimitsButOutboundRaw
  /\ \A row \in wsMessages : row.direction = "outbound" => row.raw <= 10000

\* the part of C25 that the slices of the code enforce
C25_SlicedTextsWithinLimits == LimitsButOutboundRaw


\* the handling of the routed request has ended: its handler has answered,
\* or an exception has left the middleware or the handler
RouteEnded == req.pc \in {"done", "rejected"}

\* a GET that only the final app.get("*") takes
UnmatchedGet ==
  /\ req.method = "GET"
  /\ Route(req, 1) = Len(RouteTable)

ApiPrefixed ==
  \/ Len(req.path) >= 2 /\ req.path[1] \in {"api", "webhook"}
  \/ Len(req.path) >= 1 /\ req.path[1] \in BotSegments

ControlUiOr404 ==
  IF ApiPrefixed
  THEN res = Reply(404, << "json", "Not Found" >>)
  ELSE res.status = 200 /\ res.body[1] = "html"

\* C26: once the handling of a GET to a path that no specific route matches
\* has ended, the client has the control-UI HTML (the file or the built-in
\* page), or status 404 with a JSON body when the path begins with /api/,
\* /webhook/ or /bot.
C26_UnmatchedGetServesUi == (RouteEnded /\ UnmatchedGet) => ControlUiOr404

\* the same for the requests whose handler was reached and returned
C26_AnsweredUnmatchedGetServesUi ==
  (req.pc = "done" /\ UnmatchedGet) => ControlUiOr404

SlackPost ==
  /\ req.method = "POST"
  /\ req.path \in { << "slack", "events" >>, << "webhook", "slack" >> }

SlackChallenge ==
  /\ req.body.sent = "json"
  /\ req.body.value.t = "object"
  /\ Field(req.body.value.fields, "type") = "url_verification"

SlackReplyAsClaimed ==
  IF SlackChallenge
  THEN Has(req.body.value.fields, "challenge")
         => res = Reply(200, << "text", req.body.value.fields.challenge >>)
  ELSE IF req.path = << "webhook", "slack" >>
       THEN res = Reply(200, << "json", "canned" >>)
       ELSE res = Reply(200, << "empty" >>)

\* C27: once the handling of a POST to /slack/events or /webhook/slack has
\* ended without a rejected store call, the response body is the text of the
\* challenge field alone when the JSON body has type url_verification, and
\* the normal acknowledgement of the route for any other body.
C27_SlackChallengeEchoed ==
  (fails = 0 /\ RouteEnded /\ SlackPost) => SlackReplyAsClaimed

\* the same for the requests whose handler returned
C27_AnsweredSlackChallengeEchoed ==
  (req.pc = "done" /\ SlackPost) => SlackReplyAsClaimed

\* C30: once the handling of a POST to /webhook/slack, /slack/events or
\* /interactions has ended without a rejected store call, the client has a
\* response whose status is below 500, whatever the body.
C30_WebhookPostAnswered ==
  ( /\ fails = 0
    /\ RouteEnded
    /\ req.method = "POST"
    /\ req.path \in { << "webhook", "slack" >>, << "slack", "events" >>,
                      << "interactions" >> } )
  => res.status \in 1..499

\* the same for the bodies that are not the JSON value null
C30_NonNullBodyAnswered ==
  (req.body # [sent |-> "json", value |-> JsNull]) => C30_WebhookPostAnswered


\* C28: the process exits only when every WebSocket has been closed, with
\* its tick timer stopped and the disconnected-at of its Connection written.
C28_SocketsClosedBeforeExit ==
  [][ (proc # "exited" /\ proc' = "exited")
      => \A w \in Peers :
           /\ readyState[w] # "OPEN"
           /\ timers[w] = 0
           /\ \A c \in connections :
                c.id = state[w].dbConnectionId => c.disconnected ]_vars

\* after a signal no further connection is accepted
C28_ListenerStopsAccepting ==
  [][ proc # "running" => \A w \in Peers : readyState[w] = readyState'[w]
                                             \/ readyState'[w] = "CLOSED" ]_vars


\* the address C29 names: the first X-Forwarded-For value, else X-Real-IP,
\* else the remote address of the socket
ClaimedClientIp(headers) ==
  IF Has(headers, "forwarded") THEN Head(headers.forwarded)
  ELSE IF Has(headers, "realIp") THEN headers.realIp
  ELSE headers.remoteAddress

\* C29: every Connection, SuspiciousActivity and ChannelInteraction row
\* written for an HTTP request carries the same client IP: the first
\* X-Forwarded-For value if the header is present, else X-Real-IP if
\* present, else the remote address of the socket.
C29_OneClientIpPerRequest ==
  \A r \in Requests :
    LET ip == ClaimedClientIp(http[r].headers) IN
    /\ \A c \in connections : c.id = RowId("http", r) => c.ipAddress = ip
    /\ \A a \in suspiciousActivities : a.src[1] = r => a.ipAddress = ip
    /\ \A i \in channelInteractions : i.src = r => i.ipAddress = ip

\* the same for the rows that the middleware writes
C29_MiddlewareRowsCarryClientIp ==
  \A r \in Requests :
    LET ip == ClaimedClientIp(http[r].headers) IN
    /\ \A c \in connections : c.id = RowId("http", r) => c.ipAddress = ip
    /\ \A a \in suspiciousActivities :
         a.src = << r, "mw" >> => a.ipAddress = ip


\* C31: the suspicious flag of every Request row and of every
\* ChannelInteraction row is true exactly when the classifier flagged the
\* payload of the request the row was written for.
C31_RowFlagIsClassification ==
  /\ \A row \in requestRows :
       row.isSuspicious = analyzePayload(http[row.src].cats).isSuspicious
  /\ \A row \in channelInteractions :
       row.isSuspicious = analyzePayload(http[row.src].bodyCats).isSuspicious

\* the part of C31 about WebSocket frames: the flag of every inbound
\* WebSocketMessage row is true exactly when the classifier flagged the frame
C31_InboundFrameFlagIsClassification ==
  \A row \in wsMessages :
    row.direction = "inbound"
    => row.isSuspicious
         = FrameAnalysis(tasks[row.src[1]][row.src[2]].frame).isSuspicious


\* the channel tags the specification lists
ChannelTags ==
  {"whatsapp", "telegram", "discord", "slack", "signal", "hooks", "custom"}

\* C32: in every reachable state the channel tag of every persisted
\* ChannelInteraction row is one of whatsapp, telegram, discord, slack,
\* signal, hooks, custom, also for a row written for POST /webhook/:channel.
C32_ChannelTagIsListed ==
  \A row \in channelInteractions : row.channel \in ChannelTags

\* the part of C32 about the routes that name their channel: every row
\* written for a path other than /webhook/:channel carries a listed tag
C32_NamedRoutesTagIsListed ==
  \A row \in channelInteractions :
    row.endpoint \notin { << "webhook", "other" >> }
    => row.channel \in ChannelTags


\* the hello-ok frames the server sent on socket w
HelloOks(w) == { k \in DOMAIN sent[w] : sent[w][k].type = "hello-ok" }

\* C33: for each WebSocket connection at most one AuthAttempt is written, at
\* most one hello-ok is sent and at most one tick timer runs, also when a
\* second frame arrives before the handshake of the first frame has set the
\* authenticated flag.
C33_OneHandshakePerConnection ==
  \A w \in Sockets :
    /\ Cardinality({ a \in authAttempts : a.src[1] = w }) <= 1
    /\ Cardinality(HelloOks(w)) <= 1
    /\ timers[w] <= 1

\* the part of C33 that holds: a frame that arrives after the authenticated
\* flag is set starts no handshake, so every handshake of a connection
\* belongs to a frame received while the flag was still false
C33_HandshakeOnlyBeforeAuthenticated ==
  [][ \A w \in Sockets :
        state[w].authenticated /\ Len(tasks'[w]) > Len(tasks[w])
        => tasks'[w][Len(tasks'[w])].kind # "connect" ]_vars


\* C34: every accepted WebSocket that closes is eventually absent from the
\* live-connection table, also when it closes, or the session upsert fails,
\* before handleConnection has registered its close listener.
C34_ClosedSocketLeavesTable ==
  \A w \in Peers : (readyState[w] = "CLOSED") ~> (w \notin clients)

\* the part of C34 that holds: a socket that closes after handleConnection
\* has registered the close listener leaves the table in the same step
C34_ListenedCloseLeavesTable ==
  [][ \A w \in Peers :
        hcPc[w] = "ready" /\ readyState[w] = "OPEN" /\ readyState'[w] = "CLOSED"
        => w \notin clients' ]_vars


\* the inbound rows that record frame i of socket w
InboundRows(w, i) ==
  { m \in wsMessages : m.src = << w, i >> /\ m.direction = "inbound" }

\* C35: every frame a client sent on a WebSocket after the upgrade is
\* recorded as an inbound WebSocketMessage row once the server is done with
\* it (no store call being rejected), also a frame that arrived before
\* handleConnection had registered the message listener.
C35_EveryFrameRecorded ==
  \A w \in Sockets : \A i \in TasksOf(w) :
    Ended(tasks[w][i]) /\ fails = 0 => InboundRows(w, i) # {}

\* the part of C35 that holds: a frame that the message listener received
\* is recorded by exactly one inbound row once it has been dealt with
C35_HandledFrameRecorded ==
  \A w \in Sockets : \A i \in TasksOf(w) :
    tasks[w][i].pc = "done" /\ fails = 0
    => Cardinality(InboundRows(w, i)) = 1


\* the HTTP requests received so far from address ip
ReceivedFrom(ip) ==
  { r \in Requests : http[r].pc # "idle" /\ getClientIp(http[r].headers) = ip }

\* C36: each HTTP request increases the requestCount of its IP by exactly 1
\* on every endpoint, the channel webhook routes included: once every
\* request received has been dealt with (no store call being rejected), the
\* requestCount of an IP is the number of HTTP requests received from it.
C36_RequestCountedOnce ==
  ( /\ fails = 0
    /\ \A r \in Requests : http[r].pc \in {"idle", "done"} )
  => \A ip \in IPs :
       sessions[ip].requestCount = Cardinality(ReceivedFrom(ip))

\* the part of C36 that holds: the same when none of the requests went to a
\* channel webhook route
C36_PlainRequestCountedOnce ==
  ( /\ fails = 0
    /\ \A r \in Requests : http[r].pc \in {"idle", "done"}
    /\ \A r \in Requests : http[r].route = "plain" )
  => \A ip \in IPs :
       sessions[ip].requestCount = Cardinality(ReceivedFrom(ip))


\* the res frames the server sent on socket w, by position in the order of
\* sending
Responses(w) == { k \in DOMAIN sent[w] : sent[w][k].type = "res" }

\* C37: on one connection the response frames are sent in the order in
\* which their request frames were received, however the store calls of the
\* request handlers that run at the same time complete.
C37_ResponsesInRequestOrder ==
  \A w \in Sockets : \A j, k \in Responses(w) :
    j < k => sent[w][j].src < sent[w][k].src

\* what holds instead: every response carries the id of its own request
\* frame, and no request frame is answered twice
C37_ResponseNamesItsRequest ==
  \A w \in Sockets : \A j, k \in Responses(w) :
    /\ sent[w][j].id = Field(tasks[w][sent[w][j].src].frame, "id")
    /\ sent[w][j].src = sent[w][k].src => j = k


\* C38: on a connection whose authenticated flag is still false no request
\* frame is dispatched to a method handler and no res frame has been sent; a
\* request frame received before the handshake has completed is treated as
\* a connect envelope.
C38_NoDispatchBeforeAuthenticated ==
  \A w \in Sockets :
    ~state[w].authenticated
    => /\ Responses(w) = {}
       /\ \A i \in TasksOf(w) :
            /\ tasks[w][i].kind # "req"
            /\ ( /\ tasks[w][i].frame.shape # "badjson"
                 /\ tasks[w][i].kind # "lost" )
               => tasks[w][i].kind = "connect"

\* C38 witness: a request frame was received on a connection that is not
\* authenticated yet, and an AuthAttempt has been written for it.
C38_Witness ==
  \E w \in Sockets : \E i \in TasksOf(w) :
    /\ ~state[w].authenticated
    /\ isRequestFrame(parseFrame(tasks[w][i].frame))
    /\ tasks[w][i].kind = "connect"
    /\ \E a \in authAttempts : a.src = << w, i >>


\* the first frame of socket w is valid JSON, the message listener received
\* it and has dealt with it, and no store call was rejected
FirstFrameHandled(w) ==
  /\ 1 \in TasksOf(w)
  /\ tasks[w][1].frame.shape # "badjson"
  /\ tasks[w][1].kind = "connect"
  /\ tasks[w][1].pc \in {"done", "failed"}
  /\ fails = 0

\* a hello-ok was sent in answer to the first frame and the connection is
\* AUTHENTICATED
Welcomed(w) ==
  /\ state[w].authenticated
  /\ \E k \in HelloOks(w) : sent[w][k].src = 1

\* C39: every first frame that is valid JSON is answered with hello-ok and
\* moves the connection to AUTHENTICATED, also a frame that is no object at
\* all: null, a number, a string or an array.
C39_FirstJsonFrameWelcomed ==
  \A w \in Sockets : FirstFrameHandled(w) => Welcomed(w)

\* the part of C39 that holds: every first frame that is valid JSON other
\* than null is answered with hello-ok, a number included
C39_FirstNonNullFrameWelcomed ==
  \A w \in Sockets :
    FirstFrameHandled(w) /\ tasks[w][1].frame # JsonNull => Welcomed(w)

====
